---------------------------- MODULE Spec2Model ----------------------------
(***************************************************************************)
(* A state-machine model of mini-redis: the shared database (entries, TTL  *)
(* index, pub/sub registry, expiry worker), the command layer, the         *)
(* per-connection handler in its normal and subscribed modes, and the      *)
(* listener with its shutdown path.                                        *)
(*                                                                         *)
(* Time is counted in milliseconds.  A step holds at most one operation on  *)
(* state that tasks share (a critical section of the database mutex, an    *)
(* operation on a broadcast channel or on the Notify); what a handler does *)
(* to its own connection around it belongs to the same step.               *)
(***************************************************************************)
EXTENDS Integers, Sequences, FiniteSets, TLC

VARIABLES
    now,          \* the clock (Instant::now()), in milliseconds
    entries,      \* State.entries: key -> Entry
    expirations,  \* State.expirations: <<when, id>> -> key
    next_id,      \* State.next_id
    poisoned,     \* the mutex around State is poisoned: a task panicked holding it
    pub_sub,      \* State.pub_sub: channel -> the broadcast channel behind its Sender
    permit,       \* Shared.expire_task: the Notify's stored permit
    workerPc,     \* purge_expired_tasks: "purge" | "select" | "notified" | "panicked"
    workerWhen,   \* purge_expired_tasks: the deadline of delay_until(when)
    hstate,       \* per connection: the position of its handler task
    hshutdown,    \* per connection: Shutdown.shutdown
    subs,         \* per connection: the StreamMap, channel -> the receiver's next position
    pending,      \* per connection: channels still to subscribe to / unsubscribe from
    pendingOp,    \* per connection: where the handler is inside a command, "none" at its select
    rxHeld,       \* per connection: the receiver db.subscribe returned, not yet in the StreamMap
    out,          \* per connection: the frames written to the socket
    cmd,          \* per connection: the command of the last frame read
    nread,        \* per connection: number of frames read
    delivered,    \* per connection: channel, position and payload of every message frame written
    permits,      \* Listener.limit_connections: available permits
    listenerPc,   \* Listener::run: "acquire" | "accept" | "backoff" | "failed" | "dropped"
    backoff,      \* Listener::accept: the back off, in seconds
    senderAlive,  \* Listener.notify_shutdown is alive (not dropped)
    runPc,        \* server::run: "select" | "shutdown" | "returned"
    runResult,    \* server::run: its return value, "none" until it returns
    stored,       \* history: per key, the last SET as the client issued it
    ttlUsed,      \* history: some SET so far carried EX or PX
    published,    \* history: per publish, who held a receiver and what was replied
    wire          \* Connection's read side on a byte stream: the bytes still to arrive,
                  \* Connection.buffer, and what read_frame has returned so far

vars == <<now, entries, expirations, next_id, poisoned, pub_sub, permit, workerPc, workerWhen,
          hstate, hshutdown, subs, pending, pendingOp, rxHeld, out, cmd, nread, delivered,
          permits, listenerPc, backoff, senderAlive, runPc, runResult,
          stored, ttlUsed, published, wire>>

kvVars == <<entries, expirations, next_id, poisoned>>
dbVars == <<entries, expirations, next_id, poisoned, pub_sub>>
workerVars == <<workerPc, workerWhen>>
connVars == <<hstate, hshutdown, subs, pending, pendingOp, rxHeld, out, cmd, nread, delivered>>
listenerVars == <<permits, listenerPc, backoff, senderAlive, runPc, runResult>>
histVars == <<stored, ttlUsed, published>>

-----------------------------------------------------------------------------
(* Bounds of the model and the input alphabets.                            *)

MaxConns == 3
MaxFrames == 3
MaxPublish == 3
MaxAccepts == 2
MaxSubFrames == 2

Conns == 1 .. MaxConns
Keys == {"a", "b"}
Values == {"v1", "v2"}
Channels == {"c1", "c2"}
Payloads == <<"m1", "m2", "m3", "m4", "m5">>

(* Duration::from_secs: milliseconds in a second.                          *)
MillisPerSec == 1000

(* The values a broadcast channel retains: broadcast::channel(1028) in the  *)
(* source, scaled down here so that a slow receiver can fall behind.       *)
BufferLen == 2

(* const MAX_CONNECTIONS.                                                  *)
MAX_CONNECTIONS == 250

(* The last instant, in milliseconds, an Instant can hold: the range of    *)
(* the clock, scaled down.                                                 *)
InstantMax == 2000000

-----------------------------------------------------------------------------
(* Frames.  A frame is a record; an array's elements are in `parts`.       *)

Simple(s) == [t |-> "simple", s |-> s, n |-> 0, parts |-> <<>>]
Error(s) == [t |-> "error", s |-> s, n |-> 0, parts |-> <<>>]
Integer(n) == [t |-> "int", s |-> "", n |-> n, parts |-> <<>>]
Bulk(s) == [t |-> "bulk", s |-> s, n |-> 0, parts |-> <<>>]
Null == [t |-> "null", s |-> "", n |-> 0, parts |-> <<>>]
Array(parts) == [t |-> "array", s |-> "", n |-> 0, parts |-> parts]

(* An element of an array: the frame without its own `parts`.              *)
Part(f) == [t |-> f.t, s |-> f.s, n |-> f.n]
PSimple(s) == [t |-> "simple", s |-> s, n |-> 0]
PBulk(s) == [t |-> "bulk", s |-> s, n |-> 0]
PInt(n) == [t |-> "int", s |-> "", n |-> n]

(* str::to_lowercase on the command names the clients send.                *)
to_lowercase(s) ==
    CASE s \in {"GET", "Get", "get"} -> "get"
      [] s \in {"SET", "Set", "set"} -> "set"
      [] s \in {"PUBLISH", "publish"} -> "publish"
      [] s \in {"SUBSCRIBE", "subscribe"} -> "subscribe"
      [] s \in {"UNSUBSCRIBE", "unsubscribe"} -> "unsubscribe"
      [] s \in {"PING", "ping"} -> "ping"
      [] s \in {"FOO", "foo"} -> "foo"
      [] OTHER -> s

(* atoi::<u64> on the decimal strings the clients send.                    *)
atoi(s) ==
    CASE s = "0" -> 0
      [] s = "1" -> 1
      [] s = "2" -> 2
      [] OTHER -> -1

-----------------------------------------------------------------------------
(* The wire format (frame.rs, conn.rs).  A byte is a one-character string, *)
(* a buffer a sequence of bytes, a cursor the index of the next byte.  A   *)
(* result has the status "ok", "incomplete" (Error::Incomplete), "invalid" *)
(* (Error::Invalid) or "panic" (unimplemented!() reached).                 *)

Digits == <<"0", "1", "2", "3", "4", "5", "6", "7", "8", "9">>

(* atoi::<u64>: the number written by the leading digits of the line, and  *)
(* None when the line does not start with a digit.                         *)
atoi_u64(line) ==
    LET IsDigit(b) == \E d \in DOMAIN Digits : Digits[d] = b
        DigitVal(b) == (CHOOSE d \in DOMAIN Digits : Digits[d] = b) - 1
        RECURSIVE digits(_, _)
        digits(i, acc) ==
            IF i > Len(line) \/ ~IsDigit(line[i]) THEN acc
            ELSE digits(i + 1, acc * 10 + DigitVal(line[i]))
    IN  IF Len(line) = 0 \/ ~IsDigit(line[1]) THEN [some |-> FALSE, n |-> 0]
        ELSE [some |-> TRUE, n |-> digits(1, 0)]

(* get_line: the bytes from the cursor to the first "\r\n" found by        *)
(* scanning up to the second to last byte; the cursor moves past the "\n". *)
get_line(src, pos) ==
    LET found == {i \in pos .. Len(src) - 1 : src[i] = "\r" /\ src[i + 1] = "\n"}
    IN  IF found = {} THEN [st |-> "incomplete", line |-> <<>>, pos |-> pos]
        ELSE LET i == CHOOSE i \in found : \A j \in found : i <= j
             IN  [st |-> "ok", line |-> SubSeq(src, pos, i - 1), pos |-> i + 2]

(* Variant: a decimal whose line has not fully arrived is invalid.         *)
get_decimal_needs_whole_line(src, pos) ==
    LET l == get_line(src, pos)
        v == atoi_u64(l.line)
    IN  IF l.st # "ok" \/ ~v.some THEN [st |-> "invalid", n |-> 0, pos |-> pos]
        ELSE [st |-> "ok", n |-> v.n, pos |-> l.pos]

(* get_decimal: a line that atoi accepts.                                  *)
get_decimal(src, pos) ==
    LET l == get_line(src, pos)
        v == atoi_u64(l.line)
    IN  IF l.st # "ok" THEN [st |-> l.st, n |-> 0, pos |-> pos]
        ELSE IF ~v.some THEN [st |-> "invalid", n |-> 0, pos |-> l.pos]
        ELSE [st |-> "ok", n |-> v.n, pos |-> l.pos]

(* Frame::check on k frames in a row from the cursor (the loop of the '*'  *)
(* branch calls Frame::check len times).  Intermediate results are bound   *)
(* by a set constructor, so that each is computed once.                    *)
RECURSIVE Frame_check_seq(_, _, _)
Frame_check_seq(src, pos, k) ==
    IF k = 0 THEN [st |-> "ok", pos |-> pos]
    ELSE LET remaining == Len(src) - pos + 1
             skip(at, n) == IF Len(src) - at + 1 < n THEN [st |-> "incomplete", pos |-> at]
                            ELSE [st |-> "ok", pos |-> at + n]
             payload(dec) ==
                 IF dec.st # "ok" THEN [st |-> dec.st, pos |-> dec.pos]
                 ELSE skip(dec.pos, dec.n + 2)
             elements(dec) ==
                 IF dec.st # "ok" THEN [st |-> dec.st, pos |-> dec.pos]
                 ELSE Frame_check_seq(src, dec.pos, dec.n)
             one ==
                 IF remaining < 1 THEN [st |-> "incomplete", pos |-> pos]
                 ELSE CASE src[pos] \in {"+", "-"} ->
                             CHOOSE r \in {[st |-> line.st, pos |-> line.pos] :
                                               line \in {get_line(src, pos + 1)}} : TRUE
                        [] src[pos] = ":" ->
                             CHOOSE r \in {[st |-> dec.st, pos |-> dec.pos] :
                                               dec \in {get_decimal(src, pos + 1)}} : TRUE
                        [] src[pos] = "$" ->
                             IF remaining < 2 THEN [st |-> "incomplete", pos |-> pos]
                             ELSE IF src[pos + 1] = "-" THEN skip(pos + 1, 4)
                             ELSE CHOOSE r \in {payload(dec) :
                                                    dec \in {get_decimal(src, pos + 1)}} : TRUE
                        [] src[pos] = "*" ->
                             CHOOSE r \in {elements(dec) :
                                               dec \in {get_decimal(src, pos + 1)}} : TRUE
                        [] OTHER -> [st |-> "panic", pos |-> pos]
             rest(o) == IF o.st # "ok" THEN o ELSE Frame_check_seq(src, o.pos, k - 1)
         IN  CHOOSE r \in {rest(o) : o \in {one}} : TRUE

Frame_check(src, pos) == Frame_check_seq(src, pos, 1)

(* String::from_utf8 / Bytes::copy_from_slice: the bytes as one string.    *)
RECURSIVE String_from_utf8(_)
String_from_utf8(line) ==
    IF line = <<>> THEN "" ELSE Head(line) \o String_from_utf8(Tail(line))

(* Frame::parse on k frames in a row from the cursor (the loop of the '*'  *)
(* branch calls Frame::parse len times); the frames are collected.  The    *)
(* null branch compares the line, which get_line returns without its       *)
(* "\r\n", with the four bytes "-1\r\n".                                   *)
RECURSIVE Frame_parse_seq(_, _, _)
Frame_parse_seq(src, pos, k) ==
    IF k = 0 THEN [st |-> "ok", frames |-> <<>>, pos |-> pos]
    ELSE LET remaining == Len(src) - pos + 1
             fail(st) == [st |-> st, frames |-> <<>>, pos |-> pos]
             done(f, at) == [st |-> "ok", frames |-> <<f>>, pos |-> at]
             simple(line) ==
                 IF line.st # "ok" THEN fail(line.st)
                 ELSE done(Simple(String_from_utf8(line.line)), line.pos)
             error(line) ==
                 IF line.st # "ok" THEN fail(line.st)
                 ELSE done(Error(String_from_utf8(line.line)), line.pos)
             integer(dec) ==
                 IF dec.st # "ok" THEN fail(dec.st) ELSE done(Integer(dec.n), dec.pos)
             null(line) ==
                 IF line.st # "ok" THEN fail(line.st)
                 ELSE IF line.line # <<"-", "1", "\r", "\n">> THEN fail("invalid")
                 ELSE done(Null, line.pos)
             bulk(dec) ==
                 IF dec.st # "ok" THEN fail(dec.st)
                 ELSE IF Len(src) - dec.pos + 1 < dec.n + 2 THEN fail("incomplete")
                 ELSE done(Bulk(String_from_utf8(SubSeq(src, dec.pos, dec.pos + dec.n - 1))),
                           dec.pos + dec.n + 2)
             collected(elems) ==
                 IF elems.st # "ok" THEN fail(elems.st)
                 ELSE done(Array([i \in DOMAIN elems.frames |-> Part(elems.frames[i])]),
                           elems.pos)
             array(dec) ==
                 IF dec.st # "ok" THEN fail(dec.st)
                 ELSE CHOOSE r \in {collected(elems) :
                                       elems \in {Frame_parse_seq(src, dec.pos, dec.n)}} : TRUE
             one ==
                 IF remaining < 1 THEN fail("incomplete")
                 ELSE CASE src[pos] = "+" ->
                             CHOOSE r \in {simple(line) :
                                               line \in {get_line(src, pos + 1)}} : TRUE
                        [] src[pos] = "-" ->
                             CHOOSE r \in {error(line) :
                                               line \in {get_line(src, pos + 1)}} : TRUE
                        [] src[pos] = ":" ->
                             CHOOSE r \in {integer(dec) :
                                               dec \in {get_decimal(src, pos + 1)}} : TRUE
                        [] src[pos] = "$" ->
                             IF remaining < 2 THEN fail("incomplete")
                             ELSE IF src[pos + 1] = "-"
                             THEN CHOOSE r \in {null(line) :
                                                    line \in {get_line(src, pos + 1)}} : TRUE
                             ELSE CHOOSE r \in {bulk(dec) :
                                                    dec \in {get_decimal(src, pos + 1)}} : TRUE
                        [] src[pos] = "*" ->
                             CHOOSE r \in {array(dec) :
                                               dec \in {get_decimal(src, pos + 1)}} : TRUE
                        [] OTHER -> fail("panic")
             joined(o, rest) ==
                 IF rest.st # "ok" THEN rest
                 ELSE [st |-> "ok", frames |-> o.frames \o rest.frames, pos |-> rest.pos]
             then(o) ==
                 IF o.st # "ok" THEN o
                 ELSE CHOOSE r \in {joined(o, rest) :
                                       rest \in {Frame_parse_seq(src, o.pos, k - 1)}} : TRUE
         IN  CHOOSE r \in {then(o) : o \in {one}} : TRUE

Frame_parse(src, pos) ==
    CHOOSE res \in {[st |-> r.st, frame |-> IF r.st = "ok" THEN r.frames[1] ELSE Null,
                     pos |-> r.pos] : r \in {Frame_parse_seq(src, pos, 1)}} : TRUE

(* Connection::read_frame on a buffer that holds all the peer sends before *)
(* it closes: the frame and its length, or "none" (clean end of stream),   *)
(* or "err" (Error::Invalid, or the peer closed within a frame), or        *)
(* "panic".                                                                *)
Connection_read_frame(buffer) ==
    LET after_check(parsed, len) ==
            IF parsed.st = "ok" THEN [st |-> "ok", frame |-> parsed.frame, len |-> len]
            ELSE [st |-> IF parsed.st = "panic" THEN "panic" ELSE "err",
                  frame |-> Null, len |-> 0]
        result(chk) ==
            CASE chk.st = "ok" ->
                     CHOOSE r \in {after_check(parsed, chk.pos - 1) :
                                       parsed \in {Frame_parse(buffer, 1)}} : TRUE
              [] chk.st = "incomplete" ->
                     [st |-> IF buffer = <<>> THEN "none" ELSE "err",
                      frame |-> Null, len |-> 0]
              [] chk.st = "invalid" -> [st |-> "err", frame |-> Null, len |-> 0]
              [] OTHER -> [st |-> "panic", frame |-> Null, len |-> 0]
    IN  CHOOSE r \in {result(chk) : chk \in {Frame_check(buffer, 1)}} : TRUE

(* str::as_bytes / Bytes on the strings that are written.                  *)
as_bytes(s) ==
    CASE s = "GET" -> <<"G", "E", "T">>
      [] s = "SET" -> <<"S", "E", "T">>
      [] s = "OK" -> <<"O", "K">>
      [] s = "EX" -> <<"E", "X">>
      [] s = "a" -> <<"a">>
      [] s = "b" -> <<"b">>
      [] s = "v1" -> <<"v", "1">>
      [] s = "v2" -> <<"v", "2">>
      [] OTHER -> <<>>

(* Connection::write_decimal: write!("{}", val) and "\r\n".                *)
write_decimal(val) ==
    LET RECURSIVE decimal(_)
        decimal(n) == IF n < 10 THEN <<Digits[n + 1]>>
                      ELSE decimal(n \div 10) \o <<Digits[(n % 10) + 1]>>
    IN  decimal(val) \o <<"\r", "\n">>

(* Connection::write_value: a literal, or an element of an array.          *)
write_value(frame) ==
    CASE frame.t = "simple" -> <<"+">> \o as_bytes(frame.s) \o <<"\r", "\n">>
      [] frame.t = "error" -> <<"-">> \o as_bytes(frame.s) \o <<"\r", "\n">>
      [] frame.t = "int" -> <<":">> \o write_decimal(frame.n)
      [] frame.t = "null" -> <<"$", "-", "1", "\r", "\n">>
      [] frame.t = "bulk" ->
             <<"$">> \o write_decimal(Len(as_bytes(frame.s))) \o as_bytes(frame.s)
                 \o <<"\r", "\n">>

(* Connection::write_frame: the bytes written for a frame.                 *)
Connection_write_frame(frame) ==
    LET RECURSIVE entries_from(_)
        entries_from(i) == IF i > Len(frame.parts) THEN <<>>
                           ELSE write_value(frame.parts[i]) \o entries_from(i + 1)
    IN  IF frame.t = "array"
        THEN <<"*">> \o write_decimal(Len(frame.parts)) \o entries_from(1)
        ELSE write_value(frame)

-----------------------------------------------------------------------------
(* Parse: the cursor over an array frame's elements (parse.rs).  `i` is    *)
(* the index of the next element.  A result is <<status, value>> with      *)
(* status "ok", "eos" (ParseError::EndOfStream) or "err".                  *)

Parse_new(frame) == frame.t = "array"

Parse_next_string(parts, i) ==
    IF i > Len(parts) THEN [st |-> "eos", s |-> "", n |-> 0]
    ELSE IF parts[i].t \in {"simple", "bulk"} THEN [st |-> "ok", s |-> parts[i].s, n |-> 0]
    ELSE [st |-> "err", s |-> "", n |-> 0]

Parse_next_bytes(parts, i) ==
    IF i > Len(parts) THEN [st |-> "eos", s |-> "", n |-> 0]
    ELSE IF parts[i].t \in {"simple", "bulk"} THEN [st |-> "ok", s |-> parts[i].s, n |-> 0]
    ELSE [st |-> "err", s |-> "", n |-> 0]

Parse_next_int(parts, i) ==
    IF i > Len(parts) THEN [st |-> "eos", s |-> "", n |-> 0]
    ELSE IF parts[i].t = "int" THEN [st |-> "ok", s |-> "", n |-> parts[i].n]
    ELSE IF parts[i].t \in {"simple", "bulk"} /\ atoi(parts[i].s) >= 0
         THEN [st |-> "ok", s |-> "", n |-> atoi(parts[i].s)]
    ELSE [st |-> "err", s |-> "", n |-> 0]

(* Parse::finish: no element may be left at index i.                       *)
Parse_finish(parts, i) == i > Len(parts)

-----------------------------------------------------------------------------
(* Commands.  A parsed command, or "Err" (a ParseError returned) or        *)
(* "Panic" (unimplemented!() reached).  `used` counts consumed elements.   *)

NoExpire == [some |-> FALSE, ms |-> 0]
SomeExpire(ms) == [some |-> TRUE, ms |-> ms]

Cmd(tag, name, key, value, expire, channels, used) ==
    [tag |-> tag, name |-> name, key |-> key, value |-> value, expire |-> expire,
     channels |-> channels, used |-> used]
CmdErr == Cmd("Err", "", "", "", NoExpire, <<>>, 0)
(* ParseError::UnknownCommand(command_name).                               *)
CmdUnknown(command_name) == Cmd("Err", command_name, "", "", NoExpire, <<>>, 0)
CmdPanic == Cmd("Panic", "", "", "", NoExpire, <<>>, 0)
NoCmd == Cmd("None", "", "", "", NoExpire, <<>>, 0)

(* Variant: the seconds of EX taken as milliseconds.                        *)
Duration_from_secs_as_millis(secs) == secs

Duration_from_secs(secs) == secs * MillisPerSec
Duration_from_millis(ms) == ms

Get_parse_frames(parts) ==
    LET key == Parse_next_string(parts, 2)
    IN  IF key.st = "ok" THEN Cmd("Get", "get", key.s, "", NoExpire, <<>>, 2) ELSE CmdErr

Set_parse_frames(parts) ==
    LET key == Parse_next_string(parts, 2)
        value == Parse_next_bytes(parts, 3)
        opt == Parse_next_string(parts, 4)
        num == Parse_next_int(parts, 5)
    IN  IF key.st # "ok" \/ value.st # "ok" THEN CmdErr
        ELSE IF opt.st = "eos" THEN Cmd("Set", "set", key.s, value.s, NoExpire, <<>>, 3)
        ELSE IF opt.st = "err" THEN CmdErr
        ELSE IF opt.s = "EX"
             THEN IF num.st = "ok"
                  THEN Cmd("Set", "set", key.s, value.s,
                           SomeExpire(Duration_from_secs(num.n)), <<>>, 5)
                  ELSE CmdErr
        ELSE IF opt.s = "PX"
             THEN IF num.st = "ok"
                  THEN Cmd("Set", "set", key.s, value.s,
                           SomeExpire(Duration_from_millis(num.n)), <<>>, 5)
                  ELSE CmdErr
        ELSE CmdPanic

Publish_parse_frames(parts) ==
    LET channel == Parse_next_string(parts, 2)
        message == Parse_next_bytes(parts, 3)
    IN  IF channel.st = "ok" /\ message.st = "ok"
        THEN Cmd("Publish", "publish", channel.s, message.s, NoExpire, <<>>, 3)
        ELSE CmdErr

(* The strings from index i on, when every remaining element is a string.  *)
AllStrings(parts, i) == \A j \in i .. Len(parts) : parts[j].t \in {"simple", "bulk"}
StringsFrom(parts, i) == [j \in 1 .. (Len(parts) - i + 1) |-> parts[j + i - 1].s]

Subscribe_parse_frames(parts) ==
    IF Parse_next_string(parts, 2).st = "ok" /\ AllStrings(parts, 2)
    THEN Cmd("Subscribe", "subscribe", "", "", NoExpire, StringsFrom(parts, 2), Len(parts))
    ELSE CmdErr

Unsubscribe_parse_frames(parts) ==
    IF AllStrings(parts, 2)
    THEN Cmd("Unsubscribe", "unsubscribe", "", "", NoExpire, StringsFrom(parts, 2), Len(parts))
    ELSE CmdErr

Command_from_frame(frame) ==
    IF ~Parse_new(frame) THEN CmdErr
    ELSE LET parts == frame.parts
             first == Parse_next_string(parts, 1)
             command_name == to_lowercase(first.s)
             command ==
                 CASE command_name = "get" -> Get_parse_frames(parts)
                   [] command_name = "publish" -> Publish_parse_frames(parts)
                   [] command_name = "set" -> Set_parse_frames(parts)
                   [] command_name = "subscribe" -> Subscribe_parse_frames(parts)
                   [] command_name = "unsubscribe" -> Unsubscribe_parse_frames(parts)
                   [] OTHER -> CmdUnknown(command_name)
         IN  IF first.st # "ok" THEN CmdErr
             ELSE IF command.tag \in {"Err", "Panic"} THEN command
             ELSE IF Parse_finish(parts, command.used + 1) THEN command
             ELSE CmdErr

-----------------------------------------------------------------------------
(* Maps with a growing domain (HashMap, BTreeMap, StreamMap).              *)

EmptyMap == <<>>
Put(f, k, v) == [x \in (DOMAIN f) \cup {k} |-> IF x = k THEN v ELSE f[x]]
Remove(f, k) == [x \in (DOMAIN f) \ {k} |-> f[x]]

(* Option<Instant>.                                                        *)
None == [some |-> FALSE, at |-> 0]
Some(t) == [some |-> TRUE, at |-> t]

(* Entry { id, data, expires_at }.                                         *)
Entry(id, data, expires_at) == [id |-> id, data |-> data, expires_at |-> expires_at]

-----------------------------------------------------------------------------
(* The shared database (db.rs).                                            *)

(* The order of the BTreeMap's keys (Instant, u64).                        *)
KeyLeq(p, q) == p[1] < q[1] \/ (p[1] = q[1] /\ p[2] <= q[2])

(* expirations.iter().next(): the first key of a non-empty map.            *)
FirstKey(exps) == CHOOSE p \in DOMAIN exps : \A q \in DOMAIN exps : KeyLeq(p, q)

(* State::next_expiration.                                                 *)
next_expiration(exps) ==
    IF DOMAIN exps = {} THEN None ELSE Some(FirstKey(exps)[1])

(* Db::get.                                                                *)
Db_get(ents, key) ==
    IF key \in DOMAIN ents THEN [some |-> TRUE, data |-> ents[key].data]
    ELSE [some |-> FALSE, data |-> ""]

(* Variant: the worker is notified only for the first expiration.          *)
Set_notify_only_when_empty(exps, expire, when) ==
    expire.some /\ DOMAIN exps = {}

(* Db::set: whether the worker is notified.                                *)
Set_notify(exps, expire, when) ==
    /\ expire.some
    /\ LET nxt == next_expiration(exps)
       IN  IF nxt.some THEN nxt.at > when ELSE TRUE

(* Variant: the previous entry's element stays in the index.               *)
Set_expirations_keeps_previous(exps, ents, key, id, expire, when) ==
    IF expire.some THEN Put(exps, <<when, id>>, key) ELSE exps

(* Db::set: the TTL index after the call.                                  *)
Set_expirations(exps, ents, key, id, expire, when) ==
    LET inserted == IF expire.some THEN Put(exps, <<when, id>>, key) ELSE exps
    IN  IF key \in DOMAIN ents /\ ents[key].expires_at.some
        THEN Remove(inserted, <<ents[key].expires_at.at, ents[key].id>>)
        ELSE inserted

(* Variant: a key already present keeps its entry.                        *)
Set_entries_keeps_existing(ents, key, id, value, expire, when) ==
    IF key \in DOMAIN ents THEN ents
    ELSE Put(ents, key, Entry(id, value, IF expire.some THEN Some(when) ELSE None))

(* Db::set: the entries after the call.                                    *)
Set_entries(ents, key, id, value, expire, when) ==
    Put(ents, key, Entry(id, value, IF expire.some THEN Some(when) ELSE None))

(* Db::set, the critical section.                                          *)
Db_set(key, value, expire) ==
    LET id == next_id
        when == now + expire.ms
    IN  /\ next_id' = next_id + 1
        /\ expirations' = Set_expirations(expirations, entries, key, id, expire, when)
        /\ entries' = Set_entries(entries, key, id, value, expire, when)
        /\ poisoned' = poisoned

(* A broadcast channel: the values sent so far (a receiver can still read  *)
(* the last BufferLen of them) and the number of live receivers.           *)
Channel(buf, rx_cnt) == [buf |-> buf, rx_cnt |-> rx_cnt]

(* Db::publish: the reply.  Sender::send returns the number of receivers,  *)
(* an error without any; no entry for the channel gives 0.                 *)
Publish_count(ps, ch) ==
    IF ch \in DOMAIN ps THEN ps[ch].rx_cnt ELSE 0

(* Db::publish: the registry after the call.  A send without receivers     *)
(* fails and stores nothing.                                               *)
Publish_pub_sub(ps, ch, msg) ==
    IF ch \in DOMAIN ps /\ ps[ch].rx_cnt > 0
    THEN [ps EXCEPT ![ch].buf = Append(@, msg)]
    ELSE ps

(* Db::subscribe: the registry after the call.  The first subscribe makes  *)
(* the channel with its first receiver, a later one adds a receiver.       *)
Subscribe_pub_sub(ps, ch) ==
    IF ch \in DOMAIN ps
    THEN [ps EXCEPT ![ch].rx_cnt = @ + 1]
    ELSE Put(ps, ch, Channel(<<>>, 1))

(* Db::subscribe: the new receiver starts at the channel's tail.           *)
Subscribe_rx(ps, ch) ==
    IF ch \in DOMAIN ps THEN Len(ps[ch].buf) ELSE 0

(* Variant: a channel that loses a receiver is removed from the registry.  *)
Drop_rx_removes_channel(ps, chs) == [ch \in (DOMAIN ps) \ chs |-> ps[ch]]

(* Receivers dropped: the channels in `chs` lose one receiver each.        *)
Drop_rx(ps, chs) ==
    [ch \in DOMAIN ps |-> IF ch \in chs THEN Channel(ps[ch].buf, ps[ch].rx_cnt - 1)
                                         ELSE ps[ch]]

(* Shared::purge_expired_keys: the loop, on <<entries, expirations>>.      *)
RECURSIVE purge_loop(_, _, _)
purge_loop(ents, exps, t) ==
    IF DOMAIN exps = {} THEN [entries |-> ents, expirations |-> exps, next |-> None]
    ELSE LET first == FirstKey(exps)
         IN  IF first[1] > t
             THEN [entries |-> ents, expirations |-> exps, next |-> Some(first[1])]
             ELSE purge_loop(Remove(ents, exps[first]), Remove(exps, first), t)

(* Variant: only the keys that expired strictly before now are purged.    *)
purge_expired_keys_before_now(ents, exps, t) == purge_loop(ents, exps, t - 1)

purge_expired_keys(ents, exps, t) == purge_loop(ents, exps, t)

(* Variant: a received value stays at the head of the receiver.            *)
Receiver_recv_keeps_position(buf, next) ==
    IF Len(buf) - next > BufferLen
    THEN [lagged |-> TRUE, next |-> Len(buf) - BufferLen, pos |-> 0]
    ELSE [lagged |-> FALSE, next |-> next, pos |-> next + 1]

(* broadcast::Receiver::recv on a receiver with a value to read: the value *)
(* at its position, or Lagged when the channel no longer retains it; the   *)
(* receiver then moves to the oldest retained value.                       *)
Receiver_recv(buf, next) ==
    IF Len(buf) - next > BufferLen
    THEN [lagged |-> TRUE, next |-> Len(buf) - BufferLen, pos |-> 0]
    ELSE [lagged |-> FALSE, next |-> next + 1, pos |-> next + 1]

-----------------------------------------------------------------------------
(* The expiry worker (purge_expired_tasks).                                *)

(* Variant: a handler keeps the mutex from its SET until it has written    *)
(* the reply, so the sweep waits for it.                                   *)
WorkerPurge_waits_for_reply ==
    /\ workerPc = "purge"
    /\ \A c \in Conns : pendingOp[c] \notin {"notify", "reply"}
    /\ IF poisoned
       THEN /\ workerPc' = "panicked"
            /\ UNCHANGED <<entries, expirations, workerWhen>>
       ELSE LET r == purge_expired_keys(entries, expirations, now)
            IN  /\ entries' = r.entries
                /\ expirations' = r.expirations
                /\ workerPc' = IF r.next.some THEN "select" ELSE "notified"
                /\ workerWhen' = r.next.at
    /\ UNCHANGED <<now, next_id, poisoned, pub_sub, permit, connVars, wire, listenerVars,
                   histVars>>

(* One pass of the loop body up to its wait.  lock().unwrap() on a         *)
(* poisoned mutex panics, which ends the worker task.                      *)
WorkerPurge ==
    /\ workerPc = "purge"
    /\ IF poisoned
       THEN /\ workerPc' = "panicked"
            /\ UNCHANGED <<entries, expirations, workerWhen>>
       ELSE LET r == purge_expired_keys(entries, expirations, now)
            IN  /\ entries' = r.entries
                /\ expirations' = r.expirations
                /\ workerPc' = IF r.next.some THEN "select" ELSE "notified"
                /\ workerWhen' = r.next.at
    /\ UNCHANGED <<now, next_id, poisoned, pub_sub, permit, connVars, wire, listenerVars,
                   histVars>>

(* time::delay_until(when) completes.                                      *)
WorkerTimer ==
    /\ workerPc = "select"
    /\ now >= workerWhen
    /\ workerPc' = "purge"
    /\ workerWhen' = 0
    /\ UNCHANGED <<now, dbVars, permit, connVars, wire, listenerVars, histVars>>

(* expire_task.notified() completes and takes the permit.                  *)
WorkerNotified ==
    /\ workerPc \in {"select", "notified"}
    /\ permit
    /\ permit' = FALSE
    /\ workerPc' = "purge"
    /\ workerWhen' = 0
    /\ UNCHANGED <<now, dbVars, connVars, wire, listenerVars, histVars>>

(* The clock.  What the program does depends on the clock only through    *)
(* the comparisons `when > now` and `now >= when` with the instants it     *)
(* holds (a key of the TTL index, the worker's deadline), so the clock is  *)
(* observed just before and at each of them.                               *)
Deadlines ==
    {p[1] : p \in DOMAIN expirations} \cup (IF workerPc = "select" THEN {workerWhen} ELSE {})

Instants == {t \in {w + d : w \in Deadlines, d \in {-1, 0}} : t > now}

Tick ==
    /\ \E t \in Instants : now' = t
    /\ UNCHANGED <<dbVars, permit, workerVars, wire, connVars, listenerVars, histVars>>

-----------------------------------------------------------------------------
(* The connection handler (Handler::run, Command::apply).                  *)

NoRx == [some |-> FALSE, ch |-> "", next |-> 0]
SomeRx(ch, next) == [some |-> TRUE, ch |-> ch, next |-> next]

(* The frames read so far that are not a PUBLISH applied to the database   *)
(* (those are counted by `published`).                                     *)
RECURSIVE SumRead(_)
SumRead(S) ==
    IF S = {} THEN 0
    ELSE LET c == CHOOSE x \in S : TRUE IN nread[c] + SumRead(S \ {c})
FramesRead == SumRead(Conns) - Len(published)

(* The handler waits in the select! of its current mode.                   *)
AtSelect(c) == hstate[c] \in {"normal", "subscribed"} /\ pendingOp[c] = "none"

(* The handler task ends: its StreamMap is dropped, and its receivers with *)
(* it.  A handler that returns (Ok or Err) adds its permit back; one that  *)
(* panics does not reach add_permits.                                      *)
Finish(c, how) ==
    /\ hstate' = [hstate EXCEPT ![c] = how]
    /\ subs' = [subs EXCEPT ![c] = EmptyMap]
    /\ pub_sub' = Drop_rx(pub_sub, DOMAIN subs[c])
    /\ pending' = [pending EXCEPT ![c] = <<>>]
    /\ pendingOp' = [pendingOp EXCEPT ![c] = "none"]
    /\ permits' = IF how = "panic" THEN permits ELSE permits + 1
    /\ UNCHANGED rxHeld

Write(c, frame) == out' = [out EXCEPT ![c] = Append(@, frame)]

(* History: the SET as the client wrote it, taken from the frame.          *)
SetIssued(frame, t) ==
    [set |-> TRUE, at |-> t, value |-> frame.parts[3].s,
     unit |-> IF Len(frame.parts) >= 4 THEN frame.parts[4].s ELSE "",
     n |-> IF Len(frame.parts) >= 5 THEN frame.parts[5].n ELSE 0]
NeverSet == [set |-> FALSE, at |-> 0, value |-> "", unit |-> "", n |-> 0]

(* The connections whose handler holds a receiver of ch.                   *)
Subscribed(ch) ==
    {c \in Conns : ch \in DOMAIN subs[c] \/ (rxHeld[c].some /\ rxHeld[c].ch = ch)}

(* state.lock().unwrap() on a poisoned mutex: the handler task panics.     *)
LockPanic(c) ==
    /\ Finish(c, "panic")
    /\ UNCHANGED <<kvVars, out, histVars>>

(* Get::apply.                                                             *)
Get_apply(c, command) ==
    IF poisoned THEN LockPanic(c)
    ELSE /\ LET value == Db_get(entries, command.key)
            IN  Write(c, IF value.some THEN Bulk(value.data) ELSE Null)
         /\ UNCHANGED <<dbVars, hstate, subs, pending, pendingOp, rxHeld, permits,
                        histVars>>

(* Instant::now() + duration panics when the sum is not representable.     *)
Instant_add_overflows(t, expire) == expire.some /\ t + expire.ms > InstantMax

(* Set::apply up to the end of the critical section of Db::set.  The       *)
(* expiration instant is computed inside the critical section, after       *)
(* next_id was incremented: a panic there leaves the mutex poisoned.       *)
Set_apply(c, command, frame) ==
    IF poisoned THEN LockPanic(c)
    ELSE IF Instant_add_overflows(now, command.expire)
    THEN /\ next_id' = next_id + 1
         /\ poisoned' = TRUE
         /\ Finish(c, "panic")
         /\ UNCHANGED <<entries, expirations, out, histVars>>
    ELSE /\ Db_set(command.key, command.value, command.expire)
         /\ pendingOp' = [pendingOp EXCEPT ![c] =
                IF Set_notify(expirations, command.expire, now + command.expire.ms)
                THEN "notify" ELSE "reply"]
         /\ stored' = [stored EXCEPT ![command.key] = SetIssued(frame, now)]
         /\ ttlUsed' = (ttlUsed \/ command.expire.some)
         /\ UNCHANGED <<pub_sub, hstate, subs, pending, rxHeld, out, permits, published>>

(* Publish::apply.  History: the channel, the position the value got in    *)
(* the channel (0 when the send failed) and who held a receiver.           *)
Publish_apply(c, command) ==
    IF poisoned THEN LockPanic(c)
    ELSE /\ pub_sub' = Publish_pub_sub(pub_sub, command.key, command.value)
         /\ Write(c, Integer(Publish_count(pub_sub, command.key)))
         /\ published' = Append(published,
                                [channel |-> command.key,
                                 payload |-> command.value,
                                 pos |-> IF pub_sub' = pub_sub THEN 0
                                         ELSE Len(pub_sub'[command.key].buf),
                                 rx |-> Subscribed(command.key)])
         /\ UNCHANGED <<kvVars, hstate, subs, pending, pendingOp, rxHeld, permits,
                        stored, ttlUsed>>

(* Subscribe::apply is entered: self.channels holds the listed channels.   *)
Subscribe_enter(c, command) ==
    /\ hstate' = [hstate EXCEPT ![c] = "subscribed"]
    /\ pending' = [pending EXCEPT ![c] = command.channels]
    /\ pendingOp' = [pendingOp EXCEPT ![c] = "sub"]
    /\ UNCHANGED <<dbVars, subs, rxHeld, out, permits, histVars>>

(* Handler::run, one iteration in which read_frame yields `frame`.         *)
HandlerFrame(c, frame) ==
    /\ hstate[c] = "normal"
    /\ pendingOp[c] = "none"
    /\ LET command == Command_from_frame(frame)
       IN  /\ IF command.tag = "Publish" THEN Len(published) < MaxPublish
              ELSE FramesRead < MaxFrames
           /\ cmd' = [cmd EXCEPT ![c] = command]
           /\ CASE command.tag = "Get" -> Get_apply(c, command)
                [] command.tag = "Set" -> Set_apply(c, command, frame)
                [] command.tag = "Publish" -> Publish_apply(c, command)
                [] command.tag = "Subscribe" -> Subscribe_enter(c, command)
                [] command.tag = "Unsubscribe" ->
                     Finish(c, "panic") /\ UNCHANGED <<kvVars, out, histVars>>
                [] command.tag = "Panic" ->
                     Finish(c, "panic") /\ UNCHANGED <<kvVars, out, histVars>>
                [] OTHER ->
                     Finish(c, "err") /\ UNCHANGED <<kvVars, out, histVars>>
    /\ nread' = [nread EXCEPT ![c] = @ + 1]
    /\ UNCHANGED <<now, permit, workerVars, wire, hshutdown, delivered, listenerPc, backoff,
                   senderAlive, runPc, runResult>>

(* Db::set after the critical section (the worker is notified when the new *)
(* expiration is the next one), then Set::apply writes its reply.          *)
SetFinish(c) ==
    /\ hstate[c] = "normal"
    /\ pendingOp[c] \in {"notify", "reply"}
    /\ permit' = (permit \/ pendingOp[c] = "notify")
    /\ Write(c, Simple("OK"))
    /\ pendingOp' = [pendingOp EXCEPT ![c] = "none"]
    /\ UNCHANGED <<now, dbVars, workerVars, wire, hstate, hshutdown, subs, pending, rxHeld,
                   cmd, nread, delivered, listenerVars, histVars>>

(* read_frame yields None: the peer closed the connection.                 *)
HandlerEof(c) ==
    /\ AtSelect(c)
    /\ Finish(c, "ok")
    /\ UNCHANGED <<now, kvVars, permit, workerVars, wire, hshutdown, out, cmd, nread, delivered,
                   listenerPc, backoff, senderAlive, runPc, runResult, histVars>>

(* shutdown.recv() completes.  No value is ever sent on notify_shutdown:   *)
(* the receiver returns once the sender is dropped.                        *)
(* Variant: the handler notes the signal and goes on with its loop.        *)
HandlerShutdown_keeps_reading(c) ==
    /\ AtSelect(c)
    /\ ~senderAlive
    /\ ~hshutdown[c]
    /\ hshutdown' = [hshutdown EXCEPT ![c] = TRUE]
    /\ UNCHANGED <<now, dbVars, permit, workerVars, wire, hstate, subs, pending, pendingOp,
                   rxHeld, out, cmd, nread, delivered, permits, listenerPc, backoff,
                   senderAlive, runPc, runResult, histVars>>

HandlerShutdown(c) ==
    /\ AtSelect(c)
    /\ ~senderAlive
    /\ hshutdown' = [hshutdown EXCEPT ![c] = TRUE]
    /\ Finish(c, "ok")
    /\ UNCHANGED <<now, kvVars, permit, workerVars, wire, out, cmd, nread, delivered,
                   listenerPc, backoff, senderAlive, runPc, runResult, histVars>>

(* read_frame fails: the peer sent bytes that are not a frame             *)
(* (Error::Invalid, a length that does not fit) or the socket returned an  *)
(* error.  Both modes propagate it with `?`.                               *)
HandlerReadError(c) ==
    /\ AtSelect(c)
    /\ Finish(c, "err")
    /\ UNCHANGED <<now, kvVars, permit, workerVars, wire, hshutdown, out, cmd, nread, delivered,
                   listenerPc, backoff, senderAlive, runPc, runResult, histVars>>

(* read_frame meets a frame whose first byte is none of + - : $ *:         *)
(* Frame::check reaches unimplemented!() and the handler task panics.      *)
HandlerBadByte(c) ==
    /\ AtSelect(c)
    /\ Finish(c, "panic")
    /\ UNCHANGED <<now, kvVars, permit, workerVars, wire, hshutdown, out, cmd, nread, delivered,
                   listenerPc, backoff, senderAlive, runPc, runResult, histVars>>

-----------------------------------------------------------------------------
(* Subscribed mode (Subscribe::apply).                                     *)

(* Command::get_name: the command's name, in lower case.                   *)
Command_get_name_tag(command) == command.tag
Command_get_name(command) == command.name

(* Unknown::apply: the reply to a command that is not served.              *)
Unknown_apply(c, command_name) ==
    Write(c, Error("ERR unknown command '" \o command_name \o "'"))

SubscribeResponse(ch, n) == Array(<<PBulk("subscribe"), PBulk(ch), PInt(n)>>)
UnsubscribeResponse(ch, n) == Array(<<PBulk("unsubscribe"), PBulk(ch), PInt(n)>>)
MessageResponse(ch, msg) == Array(<<PBulk("message"), PBulk(ch), PBulk(msg)>>)

(* The drain of self.channels, first half of an iteration: db.subscribe,   *)
(* which panics on a poisoned mutex.                                       *)
Subscribe_next(c) ==
    /\ hstate[c] = "subscribed"
    /\ pendingOp[c] = "sub"
    /\ IF poisoned
       THEN /\ Finish(c, "panic")
            /\ UNCHANGED <<listenerPc, backoff, senderAlive, runPc, runResult>>
       ELSE /\ LET ch == Head(pending[c])
               IN  /\ pub_sub' = Subscribe_pub_sub(pub_sub, ch)
                   /\ rxHeld' = [rxHeld EXCEPT ![c] =
                                     SomeRx(ch, Subscribe_rx(pub_sub, ch))]
            /\ pendingOp' = [pendingOp EXCEPT ![c] = "insert"]
            /\ UNCHANGED <<hstate, subs, pending, listenerVars>>
    /\ UNCHANGED <<now, kvVars, permit, workerVars, wire, hshutdown,
                   out, cmd, nread, delivered, histVars>>

(* Second half: subscriptions.insert, which drops the receiver it          *)
(* replaces, and the confirmation, whose count was taken before the insert.*)
Subscribe_insert(c) ==
    /\ hstate[c] = "subscribed"
    /\ pendingOp[c] = "insert"
    /\ LET ch == rxHeld[c].ch
           rest == Tail(pending[c])
       IN  /\ subs' = [subs EXCEPT ![c] = Put(@, ch, rxHeld[c].next)]
           /\ pub_sub' = IF ch \in DOMAIN subs[c] THEN Drop_rx(pub_sub, {ch}) ELSE pub_sub
           /\ Write(c, SubscribeResponse(ch, Cardinality(DOMAIN subs[c]) + 1))
           /\ pending' = [pending EXCEPT ![c] = rest]
           /\ pendingOp' = [pendingOp EXCEPT ![c] = IF rest = <<>> THEN "none" ELSE "sub"]
    /\ rxHeld' = [rxHeld EXCEPT ![c] = NoRx]
    /\ UNCHANGED <<now, kvVars, permit, workerVars, wire, hstate, hshutdown,
                   cmd, nread, delivered, listenerVars, histVars>>

(* Variant: a receiver that fell behind ends the handler with an error.    *)
Subscribe_message_lag_is_fatal(c, ch) ==
    /\ hstate[c] = "subscribed"
    /\ pendingOp[c] = "none"
    /\ ch \in DOMAIN subs[c]
    /\ subs[c][ch] < Len(pub_sub[ch].buf)
    /\ LET r == Receiver_recv(pub_sub[ch].buf, subs[c][ch])
       IN  IF r.lagged
           THEN /\ Finish(c, "err")
                /\ UNCHANGED <<kvVars, out, delivered, listenerPc, backoff, senderAlive,
                               runPc, runResult>>
           ELSE /\ subs' = [subs EXCEPT ![c][ch] = r.next]
                /\ Write(c, MessageResponse(ch, pub_sub[ch].buf[r.pos]))
                /\ delivered' = [delivered EXCEPT ![c] =
                       Append(@, [channel |-> ch, pos |-> r.pos,
                                  payload |-> pub_sub[ch].buf[r.pos]])]
                /\ UNCHANGED <<dbVars, hstate, pending, pendingOp, rxHeld, listenerVars>>
    /\ UNCHANGED <<now, permit, workerVars, wire, hshutdown, cmd, nread, histVars>>

(* select!: subscriptions.next() yields for channel ch.                    *)
Subscribe_message(c, ch) ==
    /\ hstate[c] = "subscribed"
    /\ pendingOp[c] = "none"
    /\ ch \in DOMAIN subs[c]
    /\ subs[c][ch] < Len(pub_sub[ch].buf)
    /\ LET r == Receiver_recv(pub_sub[ch].buf, subs[c][ch])
       IN  /\ subs' = [subs EXCEPT ![c][ch] = r.next]
           /\ IF r.lagged
              THEN UNCHANGED <<out, delivered>>
              ELSE /\ Write(c, MessageResponse(ch, pub_sub[ch].buf[r.pos]))
                   /\ delivered' = [delivered EXCEPT ![c] =
                          Append(@, [channel |-> ch, pos |-> r.pos,
                                     payload |-> pub_sub[ch].buf[r.pos]])]
    /\ UNCHANGED <<now, dbVars, permit, workerVars, wire, hstate, hshutdown, pending, pendingOp,
                   rxHeld, cmd, nread, listenerVars, histVars>>

(* The orders in which the keys of a StreamMap can be listed.              *)
Listings(S) ==
    {s \in [1 .. Cardinality(S) -> S] : \A x \in S : \E i \in DOMAIN s : s[i] = x}

(* select!: read_frame yields `frame` in subscribed mode.                  *)
SubFrame(c, frame) ==
    /\ hstate[c] = "subscribed"
    /\ pendingOp[c] = "none"
    /\ FramesRead < MaxFrames
    /\ LET command == Command_from_frame(frame)
       IN  /\ cmd' = [cmd EXCEPT ![c] = command]
           /\ CASE command.tag = "Subscribe" ->
                     /\ pending' = [pending EXCEPT ![c] = command.channels]
                     /\ pendingOp' = [pendingOp EXCEPT ![c] = "sub"]
                     /\ UNCHANGED <<pub_sub, hstate, subs, rxHeld, out, permits>>
                [] command.tag = "Unsubscribe" ->
                     /\ \E all \in Listings(DOMAIN subs[c]) :
                            LET channels == IF command.channels = <<>> THEN all
                                            ELSE command.channels
                            IN  /\ pending' = [pending EXCEPT ![c] = channels]
                                /\ pendingOp' = [pendingOp EXCEPT ![c] =
                                       IF channels = <<>> THEN "none" ELSE "unsub"]
                     /\ UNCHANGED <<pub_sub, hstate, subs, rxHeld, out, permits>>
                [] command.tag = "Panic" -> Finish(c, "panic") /\ UNCHANGED out
                [] command.tag = "Err" -> Finish(c, "err") /\ UNCHANGED out
                [] OTHER ->
                     /\ Unknown_apply(c, Command_get_name(command))
                     /\ UNCHANGED <<pub_sub, hstate, subs, pending, pendingOp, rxHeld, permits>>
    /\ nread' = [nread EXCEPT ![c] = @ + 1]
    /\ UNCHANGED <<now, kvVars, permit, workerVars, wire, hshutdown, delivered, listenerPc,
                   backoff, senderAlive, runPc, runResult, histVars>>

(* Variant: the confirmation carries the count before the removal.        *)
Unsubscribe_next_count_before(c) ==
    /\ hstate[c] = "subscribed"
    /\ pendingOp[c] = "unsub"
    /\ LET ch == Head(pending[c])
           rest == Tail(pending[c])
           left == Remove(subs[c], ch)
       IN  /\ subs' = [subs EXCEPT ![c] = left]
           /\ pub_sub' = IF ch \in DOMAIN subs[c] THEN Drop_rx(pub_sub, {ch}) ELSE pub_sub
           /\ Write(c, UnsubscribeResponse(ch, Cardinality(DOMAIN subs[c])))
           /\ pending' = [pending EXCEPT ![c] = rest]
           /\ pendingOp' = [pendingOp EXCEPT ![c] = IF rest = <<>> THEN "none" ELSE "unsub"]
    /\ UNCHANGED <<now, kvVars, permit, workerVars, wire, hstate, hshutdown, rxHeld,
                   cmd, nread, delivered, listenerVars, histVars>>

(* The loop over unsubscribe.channels, one iteration.                      *)
(* Variant: the confirmation is written and the receiver stays in the map. *)
Unsubscribe_next_keeps_receiver(c) ==
    /\ hstate[c] = "subscribed"
    /\ pendingOp[c] = "unsub"
    /\ LET ch == Head(pending[c])
           rest == Tail(pending[c])
       IN  /\ Write(c, UnsubscribeResponse(ch, Cardinality(DOMAIN subs[c])))
           /\ pending' = [pending EXCEPT ![c] = rest]
           /\ pendingOp' = [pendingOp EXCEPT ![c] = IF rest = <<>> THEN "none" ELSE "unsub"]
    /\ UNCHANGED <<now, dbVars, permit, workerVars, wire, hstate, hshutdown, subs, rxHeld,
                   cmd, nread, delivered, listenerVars, histVars>>

Unsubscribe_next(c) ==
    /\ hstate[c] = "subscribed"
    /\ pendingOp[c] = "unsub"
    /\ LET ch == Head(pending[c])
           rest == Tail(pending[c])
           left == Remove(subs[c], ch)
       IN  /\ subs' = [subs EXCEPT ![c] = left]
           /\ pub_sub' = IF ch \in DOMAIN subs[c] THEN Drop_rx(pub_sub, {ch}) ELSE pub_sub
           /\ Write(c, UnsubscribeResponse(ch, Cardinality(DOMAIN left)))
           /\ pending' = [pending EXCEPT ![c] = rest]
           /\ pendingOp' = [pendingOp EXCEPT ![c] = IF rest = <<>> THEN "none" ELSE "unsub"]
    /\ UNCHANGED <<now, kvVars, permit, workerVars, wire, hstate, hshutdown, rxHeld,
                   cmd, nread, delivered, listenerVars, histVars>>

(* One iteration of a handler in which read_frame runs on the bytes the    *)
(* peer has sent: a frame is decoded and served in the handler's mode, or  *)
(* read_frame returns None or an error, or the decoder panics.             *)
HandlerBytes(c, bytes) ==
    \E r \in {Connection_read_frame(bytes)} :
        CASE r.st = "ok" ->
                 IF hstate[c] = "normal" THEN HandlerFrame(c, r.frame)
                 ELSE SubFrame(c, r.frame)
          [] r.st = "none" -> HandlerEof(c)
          [] r.st = "err" -> HandlerReadError(c)
          [] OTHER -> HandlerBadByte(c)

-----------------------------------------------------------------------------
(* Connection::read_frame called again and again on a byte stream that     *)
(* arrives in chunks.  `whole` is the stream (history), `stream` what has  *)
(* not arrived yet, `buffer` Connection.buffer, `consumed` the number of   *)
(* bytes discarded from the buffer, `frames` the frames returned so far    *)
(* and `result` "reading" until read_frame returns None ("none") or an     *)
(* error ("err") or panics ("panic").                                      *)

Wire(whole, stream, buffer, consumed, frames, result) ==
    [whole |-> whole, stream |-> stream, buffer |-> buffer, consumed |-> consumed,
     frames |-> frames, result |-> result]
NoWire == Wire(<<>>, <<>>, <<>>, 0, <<>>, "idle")

serverVars == <<now, entries, expirations, next_id, poisoned, pub_sub, permit, workerPc,
                workerWhen, hstate, hshutdown, subs, pending, pendingOp, rxHeld, out, cmd,
                nread, delivered, permits, listenerPc, backoff, senderAlive, runPc,
                runResult, stored, ttlUsed, published>>

(* Frame::check succeeds on the buffer: the frame is parsed, its bytes are *)
(* discarded from the buffer and the frame is returned; what follows stays *)
(* in the buffer.                                                          *)
ReadFrameReturn ==
    /\ wire.result = "reading"
    /\ \E chk \in {Frame_check(wire.buffer, 1)} :
          /\ chk.st = "ok"
          /\ \E parsed \in {Frame_parse(wire.buffer, 1)} :
                wire' = IF parsed.st = "ok"
                        THEN [wire EXCEPT
                                 !.buffer = SubSeq(@, chk.pos, Len(@)),
                                 !.consumed = @ + chk.pos - 1,
                                 !.frames = Append(@, parsed.frame)]
                        ELSE [wire EXCEPT
                                 !.result = IF parsed.st = "panic" THEN "panic" ELSE "err"]
    /\ UNCHANGED serverVars

(* Frame::check yields Incomplete and read_buf appends the n bytes that    *)
(* have arrived.                                                           *)
ReadFrameReadBuf ==
    /\ wire.result = "reading"
    /\ Frame_check(wire.buffer, 1).st = "incomplete"
    /\ \E n \in 1 .. Len(wire.stream) :
          wire' = [wire EXCEPT !.buffer = @ \o SubSeq(wire.stream, 1, n),
                               !.stream = SubSeq(@, n + 1, Len(@))]
    /\ UNCHANGED serverVars

(* read_frame returns without a frame: read_buf yields 0 at the end of the *)
(* stream (None with an empty buffer, else "connection reset by peer"), or *)
(* Frame::check yields Invalid, or it panics.                              *)
ReadFrameEnd ==
    /\ wire.result = "reading"
    /\ \E chk \in {Frame_check(wire.buffer, 1)} :
          /\ chk.st = "incomplete" => wire.stream = <<>>
          /\ chk.st # "ok"
          /\ wire' = [wire EXCEPT !.result =
                         CASE chk.st = "incomplete" ->
                                  IF wire.buffer = <<>> THEN "none" ELSE "err"
                           [] chk.st = "invalid" -> "err"
                           [] OTHER -> "panic"]
    /\ UNCHANGED serverVars

(* Client::subscribe_cmd: the response the client takes as the            *)
(* confirmation of its subscription to `channel`.                          *)
Client_subscribe_accepts(response, channel) ==
    /\ response.t = "array"
    /\ Len(response.parts) = 2
    /\ response.parts[1].s = "subscribe"
    /\ response.parts[2].s = channel

-----------------------------------------------------------------------------
(* The listener and server::run.                                           *)

(* Variant: the listener does not wait for a permit.                       *)
ListenerAcquire_without_permit ==
    /\ listenerPc = "acquire"
    /\ permits' = IF permits > 0 THEN permits - 1 ELSE 0
    /\ listenerPc' = "accept"
    /\ backoff' = 1
    /\ UNCHANGED <<now, dbVars, permit, workerVars, wire, connVars, senderAlive, runPc,
                   runResult, histVars>>

(* limit_connections.acquire().await.forget().                             *)
ListenerAcquire ==
    /\ listenerPc = "acquire"
    /\ permits > 0
    /\ permits' = permits - 1
    /\ listenerPc' = "accept"
    /\ backoff' = 1
    /\ UNCHANGED <<now, dbVars, permit, workerVars, wire, connVars, senderAlive, runPc,
                   runResult, histVars>>

(* listener.accept() yields a socket: the handler of connection c is       *)
(* spawned with a receiver of notify_shutdown.  Connections are numbered   *)
(* in the order they are accepted.                                         *)
ListenerAccept(c) ==
    /\ listenerPc = "accept"
    /\ c <= MaxAccepts
    /\ hstate[c] = "none"
    /\ \A d \in Conns : hstate[d] = "none" => c <= d
    /\ hstate' = [hstate EXCEPT ![c] = "normal"]
    /\ listenerPc' = "acquire"
    /\ UNCHANGED <<now, dbVars, permit, workerVars, wire, hshutdown, subs, pending, pendingOp,
                   rxHeld, out, cmd, nread, delivered, permits, backoff, senderAlive,
                   runPc, runResult, histVars>>

(* listener.accept() yields an error: give up when backoff > 64, else wait.*)
AcceptError ==
    /\ listenerPc = "accept"
    /\ listenerPc' = IF backoff > 64 THEN "failed" ELSE "backoff"
    /\ UNCHANGED <<now, dbVars, permit, workerVars, wire, connVars, permits, backoff,
                   senderAlive, runPc, runResult, histVars>>

(* Variant: the back off grows by one second.                              *)
BackoffElapsed_adds_one ==
    /\ listenerPc = "backoff"
    /\ backoff' = backoff + 1
    /\ listenerPc' = "accept"
    /\ UNCHANGED <<now, dbVars, permit, workerVars, wire, connVars, permits,
                   senderAlive, runPc, runResult, histVars>>

(* delay_for(backoff seconds) completes; the back off doubles.             *)
BackoffElapsed ==
    /\ listenerPc = "backoff"
    /\ backoff' = backoff * 2
    /\ listenerPc' = "accept"
    /\ UNCHANGED <<now, dbVars, permit, workerVars, wire, connVars, permits,
                   senderAlive, runPc, runResult, histVars>>

(* Variant: the accept loop goes on after the shutdown future completed.   *)
ShutdownTrigger_keeps_listening ==
    /\ runPc = "select"
    /\ runPc' = "shutdown"
    /\ UNCHANGED <<now, dbVars, permit, workerVars, wire, connVars, permits, listenerPc, backoff,
                   senderAlive, runResult, histVars>>

(* select! in server::run: the shutdown future completes; the future of    *)
(* Listener::run is dropped with the select!.                              *)
ShutdownTrigger ==
    /\ runPc = "select"
    /\ runPc' = "shutdown"
    /\ listenerPc' = "dropped"
    /\ UNCHANGED <<now, dbVars, permit, workerVars, wire, connVars, permits, backoff,
                   senderAlive, runResult, histVars>>

(* select! in server::run: Listener::run returned its error, which is      *)
(* logged; run returns Ok(()) and drops `server` with notify_shutdown.     *)
RunListenerFailed ==
    /\ runPc = "select"
    /\ listenerPc = "failed"
    /\ runPc' = "returned"
    /\ runResult' = "Ok"
    /\ senderAlive' = FALSE
    /\ UNCHANGED <<now, dbVars, permit, workerVars, wire, connVars, permits, listenerPc,
                   backoff, histVars>>

(* Variant: notify_shutdown outlives run.                                  *)
RunReturn_keeps_sender ==
    /\ runPc = "shutdown"
    /\ runPc' = "returned"
    /\ runResult' = "Ok"
    /\ UNCHANGED <<now, dbVars, permit, workerVars, wire, connVars, permits, listenerPc,
                   backoff, senderAlive, histVars>>

(* server::run returns Ok(()) after the shutdown branch; `server` is       *)
(* dropped, and notify_shutdown with it.                                   *)
RunReturn ==
    /\ runPc = "shutdown"
    /\ runPc' = "returned"
    /\ runResult' = "Ok"
    /\ senderAlive' = FALSE
    /\ UNCHANGED <<now, dbVars, permit, workerVars, wire, connVars, permits, listenerPc,
                   backoff, histVars>>

-----------------------------------------------------------------------------
(* The frames the clients send.                                            *)

GetFrame(k) == Array(<<PBulk("GET"), PBulk(k)>>)
SetFrame(k, v) == Array(<<PBulk("SET"), PBulk(k), PBulk(v)>>)
SetFrameTtl(k, v, unit, n) ==
    Array(<<PBulk("SET"), PBulk(k), PBulk(v), PSimple(unit), PInt(n)>>)
PublishFrame(ch, msg) == Array(<<PBulk("PUBLISH"), PBulk(ch), PBulk(msg)>>)
SubscribeFrame(chs) == Array(<<PBulk("SUBSCRIBE")>> \o [i \in DOMAIN chs |-> PBulk(chs[i])])
UnsubscribeFrame(chs) ==
    Array(<<PBulk("UNSUBSCRIBE")>> \o [i \in DOMAIN chs |-> PBulk(chs[i])])

(* SET and GET without TTL.                                                *)
KvFrames ==
    {GetFrame(k) : k \in Keys} \cup {SetFrame(k, v) : k \in Keys, v \in Values}

(* SET with and without TTL, and GET.                                      *)
TtlFrames ==
    {GetFrame(k) : k \in Keys}
        \cup {SetFrame(k, "v1") : k \in Keys}
        \cup {SetFrameTtl(k, "v1", "EX", 1) : k \in Keys}
        \cup {SetFrameTtl(k, "v1", "PX", 1) : k \in Keys}

(* What a subscriber sends and what a publisher sends.                     *)
SubscriberFrames ==
    {SubscribeFrame(<<"c1">>), UnsubscribeFrame(<<>>), GetFrame("a"), SetFrame("a", "v1")}
(* The publishers send distinct payloads, the i-th publish the i-th one.   *)
PublisherFrames == {PublishFrame("c1", Payloads[Len(published) + 1])}

(* A command served in place and the command that enters subscribed mode.  *)
ServerFrames == {SetFrame("a", "v1"), SubscribeFrame(<<"c1">>)}

(* A command name the server does not know.                                *)
UnknownFrame == Array(<<PBulk("FOO"), PBulk("hello")>>)

(* Well-formed frames that are not a command: not an array, a missing      *)
(* argument, an argument of the wrong type, an argument too many.          *)
MalformedFrames ==
    {Simple("GET"),
     Array(<<PBulk("GET")>>),
     Array(<<PBulk("GET"), PInt(1)>>),
     Array(<<PBulk("GET"), PBulk("a"), PBulk("b")>>)}

(* A SET whose TTL added to the clock is past the last Instant.            *)
SetFrameOverflow == SetFrameTtl("a", "v1", "EX", InstantMax \div MillisPerSec + 1)

(* What a client sends that subscribes to channels and unsubscribes from   *)
(* them, with a GET in between or after.                                   *)
SubFrames ==
    {SubscribeFrame(<<"c1", "c2">>), SubscribeFrame(<<"c1">>),
     UnsubscribeFrame(<<>>), UnsubscribeFrame(<<"c1">>), UnsubscribeFrame(<<"c2", "c1">>),
     GetFrame("a")}

(* A SET whose fourth element is a string other than "EX" and "PX".        *)
SetFramesBadOption == {SetFrameTtl("a", "v1", "ex", 1), SetFrameTtl("a", "v1", "XX", 1)}

(* PING without and with an argument.                                      *)
PingFrames == {Array(<<PBulk("PING")>>), Array(<<PBulk("PING"), PBulk("hello")>>)}

(* What clients send when things go wrong: commands that are served, a     *)
(* name the server does not know, frames that are not a command, an        *)
(* UNSUBSCRIBE outside subscribed mode, a TTL that cannot be represented,  *)
(* a SET option that is not EX or PX, a PING.                              *)
ErrFrames ==
    {GetFrame("a"), SetFrame("a", "v1"), SetFrameTtl("a", "v1", "PX", 1),
     SetFrameOverflow, UnknownFrame, UnsubscribeFrame(<<>>)}
        \cup MalformedFrames \cup SetFramesBadOption \cup PingFrames

(* What a client sends that does nothing wrong.                            *)
BystanderFrames == {GetFrame("a"), SetFrame("a", "v1")} \cup PublisherFrames

(* What the clients of the admission scenario send: a command served in    *)
(* place, one that is refused, and one that cannot be applied.             *)
AdmitFrames == {GetFrame("a"), UnknownFrame, UnsubscribeFrame(<<>>)}

-----------------------------------------------------------------------------
(* Initial states.                                                         *)

(* Db::new, server::run: the server has started, `live` are the            *)
(* connections accepted so far, whose handlers wait for their first frame; *)
(* `idle` more connections were accepted whose peers send nothing and stay *)
(* connected, so that their handlers keep their permits.                   *)
InitServer(live, idle) ==
    /\ now = 0
    /\ entries = EmptyMap
    /\ expirations = EmptyMap
    /\ next_id = 0
    /\ poisoned = FALSE
    /\ pub_sub = EmptyMap
    /\ permit = FALSE
    /\ workerPc = "purge"
    /\ workerWhen = 0
    /\ hstate = [c \in Conns |-> IF c \in live THEN "normal" ELSE "none"]
    /\ hshutdown = [c \in Conns |-> FALSE]
    /\ subs = [c \in Conns |-> EmptyMap]
    /\ pending = [c \in Conns |-> <<>>]
    /\ pendingOp = [c \in Conns |-> "none"]
    /\ rxHeld = [c \in Conns |-> NoRx]
    /\ out = [c \in Conns |-> <<>>]
    /\ cmd = [c \in Conns |-> NoCmd]
    /\ nread = [c \in Conns |-> 0]
    /\ delivered = [c \in Conns |-> <<>>]
    /\ permits = MAX_CONNECTIONS - Cardinality(live) - idle
    /\ listenerPc = "acquire"
    /\ backoff = 1
    /\ senderAlive = TRUE
    /\ runPc = "select"
    /\ runResult = "none"
    /\ stored = [k \in Keys |-> NeverSet]
    /\ ttlUsed = FALSE
    /\ published = <<>>

(* No byte stream is being read.                                           *)
InitFull(live, idle) == InitServer(live, idle) /\ wire = NoWire

InitWith(live) == InitFull(live, 0)

-----------------------------------------------------------------------------
(* The server from its start: the listener, the handlers it spawns and the *)
(* shutdown path.                                                          *)

Init == InitWith({})

Next ==
    \/ ListenerAcquire
    \/ \E c \in Conns : ListenerAccept(c)
    \/ \E c \in Conns, f \in ServerFrames : HandlerFrame(c, f)
    \/ \E c \in Conns : SetFinish(c)
    \/ \E c \in Conns : Subscribe_next(c)
    \/ \E c \in Conns : Subscribe_insert(c)
    \/ \E c \in Conns, f \in ServerFrames : SubFrame(c, f)
    \/ \E c \in Conns : HandlerEof(c)
    \/ \E c \in Conns : HandlerShutdown(c)
    \/ ShutdownTrigger
    \/ RunReturn

Spec == Init /\ [][Next]_vars

(* The runtime keeps polling every task that can make progress: run after  *)
(* its select! completed, and a handler inside a command.  A handler at    *)
(* its select! takes the shutdown branch once it is ready, whatever its    *)
(* peer sends meanwhile (select! picks among the ready branches at random).*)
Fairness ==
    /\ WF_vars(RunReturn)
    /\ \A c \in Conns :
          /\ WF_vars(SetFinish(c))
          /\ WF_vars(Subscribe_next(c))
          /\ WF_vars(Subscribe_insert(c))
          /\ SF_vars(HandlerShutdown(c))

SpecFair == Spec /\ Fairness

-----------------------------------------------------------------------------
(* The key/value store with TTLs: one client, the clock and the worker.    *)

InitTtl == InitWith({1})

Worker == WorkerPurge \/ WorkerTimer \/ WorkerNotified

NextTtl ==
    \/ \E f \in TtlFrames : HandlerFrame(1, f)
    \/ SetFinish(1)
    \/ Tick
    \/ Worker

SpecTtl == InitTtl /\ [][NextTtl]_vars

(* The worker task is polled whenever it can make progress; the clock and  *)
(* the client are under no obligation.                                     *)
FairnessTtl ==
    /\ WF_vars(WorkerPurge)
    /\ WF_vars(WorkerTimer)
    /\ WF_vars(WorkerNotified)
    /\ WF_vars(SetFinish(1))

SpecTtlFair == SpecTtl /\ FairnessTtl

-----------------------------------------------------------------------------
(* The key/value store without TTLs: two clients.                          *)

InitKv == InitWith({1, 2})

NextKv ==
    \/ \E c \in {1, 2}, f \in KvFrames : HandlerFrame(c, f)
    \/ \E c \in {1, 2} : SetFinish(c)
    \/ WorkerPurge

SpecKv == InitKv /\ [][NextKv]_vars

-----------------------------------------------------------------------------
(* Publish/subscribe: two subscribers and the publishers.                  *)

Subscribers == {1, 2}
Publishers == {3}

InitPubSub == InitWith(Subscribers \cup Publishers)

NextPubSub ==
    \/ \E c \in Subscribers, f \in SubscriberFrames :
            FramesRead < MaxSubFrames /\ HandlerFrame(c, f)
    \/ \E c \in Publishers, f \in PublisherFrames : HandlerFrame(c, f)
    \/ \E c \in Subscribers : SetFinish(c)
    \/ \E c \in Subscribers : Subscribe_next(c)
    \/ \E c \in Subscribers : Subscribe_insert(c)
    \/ \E c \in Subscribers, ch \in Channels : Subscribe_message(c, ch)
    \/ \E c \in Subscribers, f \in SubscriberFrames :
            FramesRead < MaxSubFrames /\ SubFrame(c, f)
    \/ \E c \in Subscribers : Unsubscribe_next(c)
    \/ \E c \in Subscribers : HandlerEof(c)

SpecPubSub == InitPubSub /\ [][NextPubSub]_vars

-----------------------------------------------------------------------------
(* Admission: all permits but one are held by handlers whose peers stay    *)
(* silent; the listener admits the connections that follow one at a time.  *)

IdleHandlers == MAX_CONNECTIONS - 1

InitAdmit == InitFull({}, IdleHandlers)

NextAdmit ==
    \/ ListenerAcquire
    \/ \E c \in Conns : ListenerAccept(c)
    \/ \E c \in Conns, f \in AdmitFrames : HandlerFrame(c, f)
    \/ \E c \in Conns : HandlerEof(c)
    \/ \E c \in Conns : HandlerReadError(c)
    \/ \E c \in Conns : HandlerBadByte(c)

SpecAdmit == InitAdmit /\ [][NextAdmit]_vars

(* The listener task is polled once the semaphore has a permit for it.     *)
SpecAdmitFair == SpecAdmit /\ WF_vars(ListenerAcquire)

-----------------------------------------------------------------------------
(* Errors and faults: a client whose input goes wrong, a client that does  *)
(* nothing wrong, and the expiry worker.                                   *)

InitErr == InitWith({1, 2})

NextErr ==
    \/ \E f \in ErrFrames : HandlerFrame(1, f)
    \/ \E f \in BystanderFrames : HandlerFrame(2, f)
    \/ \E c \in {1, 2} : SetFinish(c)
    \/ \E c \in {1, 2} : HandlerEof(c)
    \/ \E c \in {1, 2} : HandlerReadError(c)
    \/ \E c \in {1, 2} : HandlerBadByte(c)
    \/ WorkerPurge
    \/ WorkerNotified

SpecErr == InitErr /\ [][NextErr]_vars

-----------------------------------------------------------------------------
(* Subscriptions: one client that subscribes and unsubscribes.             *)

InitSub == InitWith({1})

NextSub ==
    \/ \E f \in SubFrames : HandlerFrame(1, f)
    \/ \E f \in SubFrames : SubFrame(1, f)
    \/ Subscribe_next(1)
    \/ Subscribe_insert(1)
    \/ Unsubscribe_next(1)
    \/ HandlerEof(1)

SpecSub == InitSub /\ [][NextSub]_vars

-----------------------------------------------------------------------------
(* The server shuts down while the database is in use: one client that     *)
(* sets a key with a TTL, the clock, the expiry worker, and server::run    *)
(* from the shutdown trigger to its return.                                *)

DownFrames == {SetFrameTtl("a", "v1", "PX", 1), SetFrameTtl("b", "v1", "EX", 1)}

InitDown == InitWith({1})

NextDown ==
    \/ \E f \in DownFrames : HandlerFrame(1, f)
    \/ SetFinish(1)
    \/ HandlerEof(1)
    \/ HandlerShutdown(1)
    \/ Tick
    \/ Worker
    \/ ShutdownTrigger
    \/ RunReturn

SpecDown == InitDown /\ [][NextDown]_vars

(* Every task is polled when it can make progress.                         *)
FairnessDown ==
    /\ FairnessTtl
    /\ WF_vars(RunReturn)
    /\ SF_vars(HandlerShutdown(1))

SpecDownFair == SpecDown /\ FairnessDown

-----------------------------------------------------------------------------
(* The handlers on the wire: two clients whose requests are bytes.         *)

(* The commands the clients encode.                                        *)
WireFrames ==
    {GetFrame(k) : k \in Keys} \cup {SetFrame(k, v) : k \in Keys, v \in Values}

(* Input whose first byte, or the first byte of an element, is none of     *)
(* + - : $ *: a stray byte, an inline command, an array with such an       *)
(* element.                                                                *)
BadLeadingBytes ==
    {<<"!", "\r", "\n">>,
     <<"G", "E", "T", " ", "a", "\r", "\n">>,
     <<"*", "1", "\r", "\n", "!", "\r", "\n">>}

(* What a peer sends before it stops: an encoded command, the null bulk,   *)
(* a truncated bulk, nothing, or input with an illegal leading byte.       *)
WireInputs ==
    {Connection_write_frame(f) : f \in WireFrames}
        \cup {Connection_write_frame(Null), <<"$", "3", "\r", "\n", "G">>, <<>>}
        \cup BadLeadingBytes

InitWire == InitWith({1, 2})

NextWire ==
    \/ \E c \in {1, 2}, bytes \in WireInputs : HandlerBytes(c, bytes)
    \/ \E c \in {1, 2} : SetFinish(c)
    \/ WorkerPurge

SpecWire == InitWire /\ [][NextWire]_vars

-----------------------------------------------------------------------------
(* The listener when accepting can fail: connections are accepted, their   *)
(* peers close, and accept errors are backed off until accept gives up and *)
(* run returns.                                                            *)

NextAccept ==
    \/ ListenerAcquire
    \/ \E c \in Conns : ListenerAccept(c)
    \/ AcceptError
    \/ BackoffElapsed
    \/ RunListenerFailed
    \/ \E c \in Conns : HandlerEof(c)

SpecAccept == Init /\ [][NextAccept]_vars

-----------------------------------------------------------------------------
(* One subscriber that subscribes to a channel, again and again, leaves it *)
(* and sends a command that subscribed mode does not serve, while a        *)
(* publisher publishes on the channel.                                     *)

ResubFrames == {SubscribeFrame(<<"c1">>), UnsubscribeFrame(<<"c1">>), GetFrame("a")}

InitResub == InitWith({1, 3})

NextResub ==
    \/ \E f \in ResubFrames : HandlerFrame(1, f)
    \/ \E f \in PublisherFrames : HandlerFrame(3, f)
    \/ Subscribe_next(1)
    \/ Subscribe_insert(1)
    \/ \E ch \in Channels : Subscribe_message(1, ch)
    \/ \E f \in ResubFrames : SubFrame(1, f)
    \/ Unsubscribe_next(1)
    \/ HandlerEof(1)

SpecResub == InitResub /\ [][NextResub]_vars

-----------------------------------------------------------------------------
(* A peer writes up to MaxStreamFrames frames with Connection::write_frame *)
(* and closes; the bytes arrive in chunks of any size.                     *)

MaxStreamFrames == 2

StreamFrames == {Simple("OK"), Integer(10), Bulk("v1"), Null, GetFrame("a")}

RECURSIVE write_frames(_)
write_frames(frames) ==
    IF frames = <<>> THEN <<>>
    ELSE Connection_write_frame(Head(frames)) \o write_frames(Tail(frames))

Streams ==
    {write_frames(frames) :
         frames \in UNION {[1 .. n -> StreamFrames] : n \in 0 .. MaxStreamFrames}}

InitChunk ==
    /\ InitServer({}, 0)
    /\ \E whole \in Streams : wire = Wire(whole, whole, <<>>, 0, <<>>, "reading")

NextChunk ==
    \/ ReadFrameReturn
    \/ ReadFrameReadBuf
    \/ ReadFrameEnd

SpecChunk == InitChunk /\ [][NextChunk]_vars

-----------------------------------------------------------------------------
(* C1.  TTL index consistency: every entry with expires_at = t has its     *)
(* element (t, entry.id) -> key in the expirations index, no other element *)
(* refers to its key, and every element of the index refers to a key whose *)
(* current entry carries that instant and that id (no orphan elements).    *)
C1_IndexConsistent ==
    /\ \A k \in DOMAIN entries :
          entries[k].expires_at.some =>
              /\ <<entries[k].expires_at.at, entries[k].id>> \in DOMAIN expirations
              /\ expirations[<<entries[k].expires_at.at, entries[k].id>>] = k
              /\ Cardinality({p \in DOMAIN expirations : expirations[p] = k}) = 1
    /\ \A k \in DOMAIN entries :
          ~entries[k].expires_at.some => {p \in DOMAIN expirations : expirations[p] = k} = {}
    /\ \A p \in DOMAIN expirations :
          /\ expirations[p] \in DOMAIN entries
          /\ entries[expirations[p]].expires_at = Some(p[1])
          /\ entries[expirations[p]].id = p[2]

(* Three SETs were made, a sweep has removed one key, and the other key    *)
(* holds a TTL entry written by the last SET with its index element.       *)
C1_Witness ==
    /\ next_id = 3
    /\ \E k \in Keys : stored[k].set /\ k \notin DOMAIN entries
    /\ \E k \in DOMAIN entries : entries[k].expires_at.some /\ entries[k].id = 2
    /\ DOMAIN expirations # {}

-----------------------------------------------------------------------------
(* C2.  A key stored at t0 by SET K V with EX s (s seconds) or PX ms and   *)
(* not overwritten is not removed before t0 + TTL: while now < t0 + TTL    *)
(* the entry is there with value V, and a GET K executed then replies      *)
(* Bulk(V).                                                                *)
TtlOf(st) == IF st.unit = "EX" THEN st.n * 1000 ELSE st.n
Unexpired(k) ==
    /\ stored[k].set
    /\ stored[k].unit \in {"EX", "PX"}
    /\ now < stored[k].at + TtlOf(stored[k])

(* Handler c, in normal mode, executes a GET in this step.                 *)
GetStep(c) == hstate[c] = "normal" /\ nread'[c] = nread[c] + 1 /\ cmd'[c].tag = "Get"

C2_KeptUntilExpiry ==
    /\ [](\A k \in Keys :
             Unexpired(k) => k \in DOMAIN entries /\ entries[k].data = stored[k].value)
    /\ [][\A c \in Conns :
             GetStep(c) /\ Unexpired(cmd'[c].key)
                 => out'[c] = Append(out[c], Bulk(stored[cmd'[c].key].value))]_vars

(* A GET was answered Bulk(V) for a key set with EX at least 999 ms ago.   *)
C2_Witness ==
    \E c \in Conns, k \in Keys :
        /\ cmd[c].tag = "Get" /\ cmd[c].key = k
        /\ Unexpired(k) /\ stored[k].unit = "EX"
        /\ now > stored[k].at
        /\ Len(out[c]) > 0 /\ out[c][Len(out[c])] = Bulk(stored[k].value)

-----------------------------------------------------------------------------
(* C3.  An entry stored with a TTL and not overwritten is eventually       *)
(* removed: once now has reached its expiration instant the worker sweeps  *)
(* it, also when the SET inserted an earlier expiration while the worker   *)
(* was sleeping; from then on GET K replies Null, and K stays absent until *)
(* it is set again.                                                        *)
(* The entry of k has reached its expiration instant.  An entry is never   *)
(* in that state when it is written: its instant is later than now.        *)
Expired(k) ==
    /\ k \in DOMAIN entries
    /\ entries[k].expires_at.some
    /\ now >= entries[k].expires_at.at

C3_ExpiredEventuallyRemoved ==
    /\ \A k \in Keys : Expired(k) ~> ~Expired(k)
    /\ [][\A k \in Keys : Expired(k) /\ ~Expired(k)'
             => \/ k \notin DOMAIN entries'
                \/ entries'[k].id # entries[k].id]_vars
    /\ [][\A c \in Conns :
             GetStep(c) /\ cmd'[c].key \notin DOMAIN entries
                 => out'[c] = Append(out[c], Null)]_vars
    /\ [][\A k \in Keys :
             k \notin DOMAIN entries /\ k \in DOMAIN entries'
                 => \E c \in Conns : /\ nread'[c] = nread[c] + 1
                                     /\ cmd'[c].tag = "Set" /\ cmd'[c].key = k]_vars

(* A key set with PX after another key's later expiration was already in   *)
(* the index has been swept before that later instant, and a GET of it was *)
(* answered Null.                                                          *)
C3_Witness ==
    \E k, j \in Keys :
        /\ k # j
        /\ j \in DOMAIN entries /\ entries[j].id = 0
        /\ entries[j].expires_at.some /\ entries[j].expires_at.at > now
        /\ stored[k].set /\ stored[k].unit = "PX"
        /\ now >= stored[k].at + stored[k].n
        /\ k \notin DOMAIN entries
        /\ cmd[1].tag = "Get" /\ cmd[1].key = k
        /\ Len(out[1]) > 0 /\ out[1][Len(out[1])] = Null

-----------------------------------------------------------------------------
(* C4.  For SET and GET commands without TTL, GET K replies Bulk(V) where  *)
(* V is the value of the most recent preceding SET K from any connection,  *)
(* and Null when K has never been set; every SET replies Simple "OK".      *)

(* Handler c writes the reply of its SET in this step.                     *)
SetReplyStep(c) == pendingOp[c] \in {"notify", "reply"} /\ pendingOp'[c] = "none"

C4_GetReturnsLastSet ==
    [][\A c \in Conns :
          /\ GetStep(c) /\ ~ttlUsed =>
                 out'[c] = Append(out[c], IF stored[cmd'[c].key].set
                                          THEN Bulk(stored[cmd'[c].key].value)
                                          ELSE Null)
          /\ SetReplyStep(c) /\ ~ttlUsed => out'[c] = Append(out[c], Simple("OK"))]_vars

(* One connection has set a key twice, to v1 and then to v2, and the other *)
(* connection's GET was answered Bulk(v2).                                 *)
C4_Witness ==
    \E c, d \in Conns, k \in Keys :
        /\ c # d
        /\ out[d] = <<Simple("OK"), Simple("OK")>>
        /\ k \in DOMAIN entries /\ entries[k].id = 1 /\ stored[k].value = "v2"
        /\ cmd[c].tag = "Get" /\ cmd[c].key = k
        /\ out[c] = <<Bulk("v2")>>

-----------------------------------------------------------------------------
(* Handler c, in normal mode, executes a PUBLISH in this step.             *)
PublishStep(c) ==
    hstate[c] = "normal" /\ nread'[c] = nread[c] + 1 /\ cmd'[c].tag = "Publish"

(* The publish that put a value at position pos of channel ch.             *)
PublishOf(ch, pos) ==
    {i \in DOMAIN published : published[i].channel = ch /\ published[i].pos = pos}

(* C5.  The integer replied to PUBLISH C M equals the number of connection *)
(* handlers subscribed to C at the moment of the publish (0 when C has no  *)
(* broadcaster or no subscriber); a handler that subscribes to C after the *)
(* publish is not counted and does not receive M.                          *)
C5_PublishCountsSubscribers ==
    /\ [][\A c \in Conns :
             PublishStep(c) =>
                 out'[c] = Append(out[c], Integer(Cardinality(Subscribed(cmd'[c].key))))]_vars
    /\ [](\A c \in Conns : \A i \in DOMAIN delivered[c] :
             \A p \in PublishOf(delivered[c][i].channel, delivered[c][i].pos) :
                 c \in published[p].rx)

-----------------------------------------------------------------------------
(* C6.  For a fixed channel, the "message" frames written to a subscribed  *)
(* connection carry the payloads in the order in which the PUBLISH         *)
(* commands were applied to the database, and no payload is delivered      *)
(* twice to the same connection.                                           *)
IsMessage(frame) == frame.t = "array" /\ frame.parts[1] = PBulk("message")

C6_DeliveredInPublishOrder ==
    \A c \in Conns :
        /\ \A i, j \in DOMAIN delivered[c] :
              i < j /\ delivered[c][i].channel = delivered[c][j].channel
                  => delivered[c][i].pos < delivered[c][j].pos
        /\ \A i \in DOMAIN delivered[c] :
              \E p \in PublishOf(delivered[c][i].channel, delivered[c][i].pos) :
                  published[p].payload = delivered[c][i].payload
        /\ SelectSeq(out[c], IsMessage)
              = [i \in DOMAIN delivered[c] |->
                     MessageResponse(delivered[c][i].channel, delivered[c][i].payload)]

(* A subscriber that fell behind: it held a receiver when the first value  *)
(* was published, skipped it, and was delivered the second and the third.  *)
C6_Witness ==
    \E c \in Conns :
        /\ Len(published) >= 3
        /\ c \in published[1].rx
        /\ Len(delivered[c]) = 2
        /\ delivered[c][1].pos = 2 /\ delivered[c][2].pos = 3

-----------------------------------------------------------------------------
(* C7.  In subscribed mode a GET or SET is answered with the Error frame   *)
(* "ERR unknown command '<name>'" with the lowercased command name, the    *)
(* command is not executed (entries and the TTL index are unchanged) and   *)
(* the connection stays in subscribed mode with its subscriptions intact.  *)
C7_SubscribedRejectsGetSet ==
    [][\A c \in Conns :
          (/\ hstate[c] = "subscribed"
           /\ nread'[c] = nread[c] + 1
           /\ cmd'[c].tag \in {"Get", "Set"})
          => /\ out'[c] = Append(out[c],
                     IF cmd'[c].tag = "Get" THEN Error("ERR unknown command 'get'")
                     ELSE Error("ERR unknown command 'set'"))
             /\ entries' = entries
             /\ expirations' = expirations
             /\ hstate'[c] = "subscribed"
             /\ subs'[c] = subs[c]]_vars

(* A subscribed connection sent SET and got the error; nothing is stored.  *)
C7_Witness ==
    \E c \in Conns :
        /\ hstate[c] = "subscribed"
        /\ DOMAIN subs[c] # {}
        /\ cmd[c].tag = "Set"
        /\ out[c][Len(out[c])] = Error("ERR unknown command 'set'")
        /\ entries = EmptyMap

-----------------------------------------------------------------------------
Live(c) == hstate[c] \in {"normal", "subscribed"}
Triggered == runPc # "select"

(* C8.  server::run returns only after every spawned connection handler    *)
(* has completed: in a state where run has returned following the shutdown *)
(* trigger, no handler task is still running.                              *)
C8_RunWaitsForHandlers ==
    runPc = "returned" => \A c \in Conns : ~Live(c)

-----------------------------------------------------------------------------
(* C9.  After the shutdown trigger has fired, every live handler, in       *)
(* normal mode or in subscribed mode, eventually observes the shutdown     *)
(* signal and terminates, without its peer closing or sending anything.    *)
C9_HandlersTerminate ==
    \A c \in Conns : (Triggered /\ Live(c)) ~> ~Live(c)

(* A handler in subscribed mode and one in normal mode have both observed  *)
(* the shutdown signal and have returned.                                  *)
C9_Witness ==
    \E c, d \in Conns :
        /\ hshutdown[c] /\ hstate[c] = "ok" /\ cmd[c].tag = "Subscribe"
        /\ hshutdown[d] /\ hstate[d] = "ok" /\ cmd[d].tag # "Subscribe"

-----------------------------------------------------------------------------
(* C10.  Once the shutdown trigger has fired, the listener accepts no      *)
(* further connection and spawns no further handler, and run returns Ok.   *)
C10_NoAcceptAfterTrigger ==
    /\ [][Triggered => /\ \A c \in Conns : hstate[c] = "none" => hstate'[c] = "none"
                       /\ permits' >= permits]_vars
    /\ [](runPc = "returned" => runResult = "Ok")
    /\ (runPc = "shutdown") ~> (runPc = "returned" /\ runResult = "Ok")

(* run has returned Ok while the listener was waiting in accept and a      *)
(* connection slot was never used.                                         *)
C10_Witness ==
    /\ runPc = "returned" /\ runResult = "Ok"
    /\ permits < MAX_CONNECTIONS - Cardinality({c \in Conns : Live(c)})
    /\ \E c \in Conns : hstate[c] = "none"
    /\ \E c \in Conns : Live(c)

-----------------------------------------------------------------------------
(* The handler tasks that are running, the silent ones included.           *)
LiveHandlers == IdleHandlers + Cardinality({c \in Conns : Live(c)})

(* C11.  At most 250 connection handler tasks are live; while 250 are live *)
(* the listener accepts no connection (no handler is spawned), and once a  *)
(* permit is free the listener takes it and waits in accept again.         *)
C11_AtMostMaxConnections ==
    /\ [](LiveHandlers <= MAX_CONNECTIONS)
    /\ [][LiveHandlers = MAX_CONNECTIONS
            => \A c \in Conns : hstate[c] = "none" => hstate'[c] = "none"]_vars
    /\ (listenerPc = "acquire" /\ permits > 0) ~> (listenerPc = "accept")

(* With 250 handlers live the listener waited for a permit; the first      *)
(* admitted handler returned, and the next connection has been accepted.   *)
C11_Witness ==
    /\ hstate[1] \in {"ok", "err"}
    /\ hstate[2] = "normal"
    /\ LiveHandlers = MAX_CONNECTIONS
    /\ permits = 0
    /\ listenerPc = "acquire"

-----------------------------------------------------------------------------
(* C12.  Every handler gives its permit back exactly once when it stops,   *)
(* however it stops (return, returned error, or a fault while processing a *)
(* frame or a command): available permits + live handlers + (1 if the      *)
(* listener holds a permit while waiting in accept) = 250.                 *)
C12_PermitsConserved ==
    permits + LiveHandlers + (IF listenerPc = "accept" THEN 1 ELSE 0) = MAX_CONNECTIONS

-----------------------------------------------------------------------------
(* Handler c, in normal mode, reads a frame in this step.                  *)
NormalRead(c) == hstate[c] = "normal" /\ nread'[c] = nread[c] + 1

(* Exactly one frame is written to c in this step, an Error frame.         *)
ErrorReplied(c) ==
    /\ Len(out'[c]) = Len(out[c]) + 1
    /\ SubSeq(out'[c], 1, Len(out[c])) = out[c]
    /\ out'[c][Len(out'[c])].t = "error"

(* C13.  In normal mode a command array whose name N is not a supported    *)
(* command is answered with exactly one reply, the Error frame             *)
(* "ERR unknown command '<N lowercased>'", the database is unchanged, and  *)
(* the handler keeps serving the connection.                               *)
C13_UnknownCommandReplied ==
    [][\A c \in Conns :
          NormalRead(c) /\ cmd'[c].tag = "Err" /\ cmd'[c].name # ""
              => /\ out'[c] = Append(out[c],
                         Error("ERR unknown command '" \o cmd'[c].name \o "'"))
                 /\ <<entries, expirations, pub_sub>>' = <<entries, expirations, pub_sub>>
                 /\ hstate'[c] = "normal"]_vars

-----------------------------------------------------------------------------
(* C14.  In normal mode a well-formed frame that fails command parsing     *)
(* (not an array, a missing or wrongly typed argument, arguments left      *)
(* over) gets one Error frame as its reply and the handler goes on with    *)
(* the next frame; only framing and I/O errors, which yield no frame,      *)
(* make the handler return an error.                                       *)
C14_ParseErrorReplied ==
    /\ [][\A c \in Conns :
             NormalRead(c) /\ cmd'[c].tag = "Err" /\ cmd'[c].name = ""
                 => ErrorReplied(c) /\ hstate'[c] = "normal"]_vars
    /\ [][\A c \in Conns :
             hstate[c] = "normal" /\ hstate'[c] = "err" => nread'[c] = nread[c]]_vars

-----------------------------------------------------------------------------
(* C15.  An UNSUBSCRIBE received in normal mode is answered with an Error  *)
(* frame and the handler keeps running in normal mode.                     *)
C15_UnsubscribeInNormalMode ==
    [][\A c \in Conns :
          NormalRead(c) /\ cmd'[c].tag = "Unsubscribe"
              => ErrorReplied(c) /\ hstate'[c] = "normal"]_vars

-----------------------------------------------------------------------------
(* C16.  A failure while serving one connection ends at most that          *)
(* connection's handler: no step ends two tasks, the expiry worker keeps   *)
(* running, and a GET, a SET without TTL or a PUBLISH read by a handler is *)
(* served (its handler stays live) whatever happened on other connections  *)
(* before.                                                                 *)
C16_FailuresContained ==
    /\ [][\A c \in Conns :
             (/\ NormalRead(c)
              /\ \/ cmd'[c].tag \in {"Get", "Publish"}
                 \/ cmd'[c].tag = "Set" /\ ~cmd'[c].expire.some)
             => hstate'[c] = "normal"]_vars
    /\ [][\A c, d \in Conns :
             c # d /\ Live(c) /\ Live(d) => Live(c)' \/ Live(d)']_vars
    /\ [](workerPc # "panicked")

-----------------------------------------------------------------------------
(* Handler c completes one iteration of the drain of self.channels in this *)
(* step: the channel is in its StreamMap and the confirmation is written.  *)
SubscribeStep(c) == pendingOp[c] = "insert" /\ pendingOp'[c] # "insert"

(* C17.  For SUBSCRIBE c1 ... cn the handler writes one confirmation per   *)
(* listed channel, in the listed order, each [Bulk "subscribe", Bulk ci,   *)
(* Integer k] with k the number of channels the connection is subscribed   *)
(* to once ci has been added.                                              *)
C17_SubscribeConfirms ==
    /\ [][\A c \in Conns :
             nread'[c] = nread[c] + 1 /\ cmd'[c].tag = "Subscribe"
                 => pending'[c] = cmd'[c].channels /\ out'[c] = out[c]]_vars
    /\ [][\A c \in Conns :
             SubscribeStep(c)
                 => /\ Head(pending[c]) \in DOMAIN subs'[c]
                    /\ pending'[c] = Tail(pending[c])
                    /\ out'[c] = Append(out[c],
                            SubscribeResponse(Head(pending[c]),
                                              Cardinality(DOMAIN subs'[c])))]_vars

-----------------------------------------------------------------------------
(* C18.  Subscribing to a channel the connection is already subscribed to  *)
(* leaves its subscription set unchanged and still produces a              *)
(* confirmation, whose count is the unchanged number of subscribed         *)
(* channels.                                                               *)
C18_DuplicateSubscribe ==
    [][\A c \in Conns :
          SubscribeStep(c) /\ Head(pending[c]) \in DOMAIN subs[c]
              => /\ DOMAIN subs'[c] = DOMAIN subs[c]
                 /\ out'[c] = Append(out[c],
                         SubscribeResponse(Head(pending[c]),
                                           Cardinality(DOMAIN subs[c])))]_vars

-----------------------------------------------------------------------------
IsUnsubscribeResponse(frame) == frame.t = "array" /\ frame.parts[1] = PBulk("unsubscribe")

(* Handler c completes one iteration of the loop over the channels to      *)
(* unsubscribe from in this step.                                          *)
UnsubscribeStep(c) == pendingOp[c] = "unsub" /\ pending'[c] # pending[c]

-----------------------------------------------------------------------------
(* C20.  When an UNSUBSCRIBE leaves a connection with no subscriptions the *)
(* handler returns to normal mode: a handler waiting for input with no     *)
(* subscription is in normal mode, and a GET it then reads is executed     *)
(* against the database.                                                   *)
C20_ReturnsToNormalMode ==
    /\ [](\A c \in Conns :
             Live(c) /\ pendingOp[c] = "none" /\ DOMAIN subs[c] = {}
                 => hstate[c] = "normal")
    /\ [][\A c \in Conns :
             (/\ Live(c) /\ DOMAIN subs[c] = {}
              /\ nread'[c] = nread[c] + 1
              /\ cmd'[c].tag = "Get")
             => out'[c] = Append(out[c],
                    IF cmd'[c].key \in DOMAIN entries
                    THEN Bulk(entries[cmd'[c].key].data) ELSE Null)]_vars

-----------------------------------------------------------------------------
(* C21.  The reply to SUBSCRIBE for a channel C is the two-element array   *)
(* [Bulk "subscribe", Bulk C] and the reply to UNSUBSCRIBE C is the        *)
(* two-element array [Bulk "unsubscribe", Bulk C], without a count, the    *)
(* shape the client accepts as a confirmation.                             *)
C21_TwoElementConfirmation ==
    /\ [][\A c \in Conns :
             SubscribeStep(c)
                 => /\ out'[c] = Append(out[c],
                            Array(<<PBulk("subscribe"), PBulk(Head(pending[c]))>>))
                    /\ Client_subscribe_accepts(out'[c][Len(out'[c])],
                                                Head(pending[c]))]_vars
    /\ [][\A c \in Conns :
             UnsubscribeStep(c)
                 => out'[c] = Append(out[c],
                        Array(<<PBulk("unsubscribe"), PBulk(Head(pending[c]))>>))]_vars

-----------------------------------------------------------------------------
(* The receiver of c on ch has fallen behind: the channel no longer        *)
(* retains the value at its position.                                      *)
Lagging(c, ch) ==
    /\ ch \in DOMAIN subs[c]
    /\ Len(pub_sub[ch].buf) - subs[c][ch] > BufferLen

(* The receiver of c on ch moves in this step.                             *)
RecvStep(c, ch) ==
    /\ ch \in DOMAIN subs[c] /\ ch \in DOMAIN subs'[c]
    /\ pendingOp[c] = "none" /\ nread'[c] = nread[c]
    /\ subs'[c][ch] # subs[c][ch]

(* C22.  When a subscriber's buffer overflows, PUBLISH still completes     *)
(* without blocking and replies its count, and the subscriber's handler    *)
(* observes the lag, skips the dropped messages, stays subscribed and goes *)
(* on delivering later messages; the connection is not terminated.         *)
C22_LagIsSkipped ==
    /\ [](\A c \in Publishers :
             AtSelect(c) /\ Len(published) < MaxPublish
                 => ENABLED (\E f \in PublisherFrames : HandlerFrame(c, f)))
    /\ [][\A c \in Conns :
             PublishStep(c)
                 => /\ out'[c] = Append(out[c],
                            Integer(Publish_count(pub_sub, cmd'[c].key)))
                    /\ hstate'[c] = "normal"]_vars
    /\ [][\A c \in Conns :
             hstate[c] = "subscribed" /\ nread'[c] = nread[c]
                 => hstate'[c] \in {"subscribed", "ok"}]_vars
    /\ [][\A c \in Conns, ch \in Channels :
             RecvStep(c, ch)
                 => IF Lagging(c, ch)
                    THEN /\ out'[c] = out[c]
                         /\ subs'[c][ch] = Len(pub_sub[ch].buf) - BufferLen
                    ELSE /\ subs'[c][ch] = subs[c][ch] + 1
                         /\ out'[c] = Append(out[c],
                                MessageResponse(ch, pub_sub[ch].buf[subs'[c][ch]]))]_vars

(* Three values were published while a subscriber read nothing; it then    *)
(* skipped the first and was delivered the second, still subscribed.       *)
C22_Witness ==
    \E c \in Conns :
        /\ Len(published) = 3
        /\ \A i \in 1 .. 3 : published[i].pos = i /\ c \in published[i].rx
        /\ hstate[c] = "subscribed" /\ "c1" \in DOMAIN subs[c]
        /\ Len(delivered[c]) = 1 /\ delivered[c][1].pos = 2
        /\ out[c][Len(out[c])] = MessageResponse("c1", "m2")

-----------------------------------------------------------------------------
(* Handler c, in normal mode, executes a SET in this step.                 *)
SetStep(c) == hstate[c] = "normal" /\ nread'[c] = nread[c] + 1 /\ cmd'[c].tag = "Set"

(* The elements of the TTL index that refer to key k.                      *)
IndexOf(exps, k) == {p \in DOMAIN exps : exps[p] = k}

(* C23.  SET K V executed twice in a row leaves what one execution leaves: *)
(* when a connection's SET repeats the command it executed just before     *)
(* (same key, value and TTL), then afterwards a GET of K finds V, K has    *)
(* the entry this SET wrote, the TTL index holds exactly one element for K *)
(* when the SET carries a TTL (the one of this SET) and none otherwise,    *)
(* and the other keys and their index elements are as before.  A GET that  *)
(* follows a SET of its key on the same connection, before the TTL has     *)
(* elapsed, is answered Bulk(V).                                           *)
C23_SetTwiceIsIdempotent ==
    [][\A c \in Conns :
          /\ SetStep(c) /\ cmd[c] = cmd'[c] =>
                 LET k == cmd'[c].key
                     expire == cmd'[c].expire
                 IN  /\ Db_get(entries', k) = [some |-> TRUE, data |-> cmd'[c].value]
                     /\ entries'[k] = Entry(next_id, cmd'[c].value,
                                            IF expire.some THEN Some(now + expire.ms)
                                            ELSE None)
                     /\ IndexOf(expirations', k) =
                            IF expire.some THEN {<<now + expire.ms, next_id>>} ELSE {}
                     /\ \A j \in Keys \ {k} :
                            /\ (j \in DOMAIN entries') = (j \in DOMAIN entries)
                            /\ j \in DOMAIN entries => entries'[j] = entries[j]
                            /\ IndexOf(expirations', j) = IndexOf(expirations, j)
          /\ GetStep(c) /\ cmd[c].tag = "Set" /\ cmd[c].key = cmd'[c].key
                 /\ (cmd[c].expire.some => Unexpired(cmd[c].key)) =>
                 out'[c] = Append(out[c], Bulk(cmd[c].value))]_vars

(* SET a v1 EX 1 was executed twice and then GET a was answered Bulk(v1):  *)
(* the entry is the second SET's and the index holds its element only.     *)
C23_Witness ==
    /\ next_id = 2
    /\ out[1] = <<Simple("OK"), Simple("OK"), Bulk("v1")>>
    /\ "a" \in DOMAIN entries /\ entries["a"].id = 1 /\ entries["a"].expires_at.some
    /\ stored["a"].unit = "EX"
    /\ Cardinality(IndexOf(expirations, "a")) = 1

-----------------------------------------------------------------------------
(* C24.  SET key value followed by a token other than upper-case EX or PX  *)
(* (lower-case ex included) is a protocol error: the handler replies with  *)
(* one Error frame, stores nothing, and keeps serving the connection.      *)
(* (Set::parse_frames is the only place of Command::from_frame that        *)
(* reaches unimplemented!(), which the parsed command records as "Panic".) *)
C24_BadSetOptionReplied ==
    [][\A c \in Conns :
          NormalRead(c) /\ cmd'[c].tag = "Panic"
              => /\ ErrorReplied(c)
                 /\ <<entries, expirations>>' = <<entries, expirations>>
                 /\ hstate'[c] = "normal"]_vars

-----------------------------------------------------------------------------
(* C25.  PING is answered Simple "PONG", PING with an argument is answered *)
(* with the argument as a Bulk; the database is unchanged and the handler  *)
(* stays in the mode it was in.                                            *)
C25_PingAnswered ==
    [][\A c \in Conns :
          nread'[c] = nread[c] + 1 /\ cmd'[c].name = "ping"
              => /\ \E reply \in {Simple("PONG"), Bulk("hello")} :
                        out'[c] = Append(out[c], reply)
                 /\ <<entries, expirations, pub_sub>>' = <<entries, expirations, pub_sub>>
                 /\ hstate'[c] = hstate[c]]_vars

-----------------------------------------------------------------------------
(* The worker is at its wait: it has the result of its sweep and has not   *)
(* yet been woken.  The Notify keeps one permit, so a notification that    *)
(* arrives before the worker polls notified() and one that arrives while   *)
(* it is parked have the same effect; both are this state.                 *)
Asleep == workerPc \in {"select", "notified"}

(* A wake-up is on its way: the permit is stored, or a SET has left the    *)
(* critical section with notify = true and has not called notify() yet.    *)
WakeUpComing == permit \/ \E c \in Conns : pendingOp[c] = "notify"

(* The smallest instant of a non-empty TTL index.                          *)
MinWhen == FirstKey(expirations)[1]

(* C28.  No wake-up of the expiry worker is lost.  Whenever the worker is  *)
(* at its wait and the TTL index holds an instant earlier than the         *)
(* deadline it waits for (or any instant, when it waits without deadline), *)
(* a wake-up is coming; the permit is taken by the worker only, which then *)
(* sweeps again; a wake-up that is coming does wake the worker; and a      *)
(* worker at its wait when the smallest instant of the index has passed    *)
(* sweeps again.                                                           *)
C28_NoLostWakeUp ==
    /\ [](Asleep /\ DOMAIN expirations # {}
             /\ (workerPc = "notified" \/ MinWhen < workerWhen)
          => WakeUpComing)
    /\ [][permit /\ ~permit' => Asleep /\ workerPc' = "purge"]_vars
    /\ (Asleep /\ WakeUpComing) ~> (workerPc = "purge")
    /\ (Asleep /\ DOMAIN expirations # {} /\ now >= MinWhen) ~> (workerPc = "purge")

(* The worker waits for a deadline, a SET has since put an earlier instant *)
(* into the index, and its notification is stored.                         *)
C28_Witness ==
    /\ workerPc = "select"
    /\ DOMAIN expirations # {} /\ MinWhen < workerWhen
    /\ permit
    /\ \A c \in Conns : pendingOp[c] = "none"

-----------------------------------------------------------------------------
(* The worker task has ended: it is in none of the states of its loop.     *)
WorkerEnded == workerPc \notin {"purge", "select", "notified"}

(* C29.  After shutdown has been requested (the server's shutdown trigger  *)
(* fired and run returned, dropping its handle of the database) the expiry *)
(* worker eventually leaves its loop: its task terminates instead of       *)
(* waiting forever for a wake-up or a deadline.                            *)
C29_WorkerTerminates ==
    (runPc = "returned") ~> WorkerEnded

-----------------------------------------------------------------------------
-----------------------------------------------------------------------------
(* C26.  Input whose leading byte is none of + - : $ * is reported by the  *)
(* decoder as malformed (an error value, not a crash): the handler that    *)
(* reads it ends with an error and writes no reply.                        *)
C26_IllegalLeadingByte ==
    [][\A c \in Conns, bytes \in BadLeadingBytes :
          HandlerBytes(c, bytes)
              => /\ Frame_check(bytes, 1).st = "invalid"
                 /\ hstate'[c] = "err"
                 /\ out'[c] = out[c]]_vars

-----------------------------------------------------------------------------
(* C27.  Decoding the five bytes $-1\r\n succeeds, yields Null and         *)
(* consumes the five bytes: every Null a handler has written with          *)
(* write_frame is read back as Null by the read_frame of its peer.         *)
C27_NullRoundTrip ==
    \A c \in Conns : \A i \in DOMAIN out[c] :
        out[c][i] = Null =>
            LET bytes == Connection_write_frame(out[c][i])
            IN  /\ bytes = <<"$", "-", "1", "\r", "\n">>
                /\ Connection_read_frame(bytes) = [st |-> "ok", frame |-> Null, len |-> 5]

-----------------------------------------------------------------------------
(* The worker completes one sweep in this step.                            *)
SweepStep == workerPc = "purge" /\ workerPc' \in {"select", "notified"}

(* C31.  One sweep at time now removes every entry whose expiration        *)
(* instant is <= now together with its index element, leaves every entry   *)
(* with a later instant or without TTL as it was, leaves pub_sub and        *)
(* next_id unchanged, and returns the smallest remaining instant (the       *)
(* worker then waits for it), or none when the index is empty (the worker   *)
(* then waits for a notification only).                                     *)
C31_SweepEffect ==
    [][SweepStep =>
          /\ \A k \in DOMAIN entries :
                IF entries[k].expires_at.some /\ entries[k].expires_at.at <= now
                THEN k \notin DOMAIN entries'
                ELSE k \in DOMAIN entries' /\ entries'[k] = entries[k]
          /\ DOMAIN entries' \subseteq DOMAIN entries
          /\ DOMAIN expirations' = {p \in DOMAIN expirations : p[1] > now}
          /\ \A p \in DOMAIN expirations' : expirations'[p] = expirations[p]
          /\ pub_sub' = pub_sub /\ next_id' = next_id
          /\ IF DOMAIN expirations' = {} THEN workerPc' = "notified"
             ELSE /\ workerPc' = "select"
                  /\ workerWhen' = FirstKey(expirations')[1]]_vars

(* A sweep has removed one key at its instant and has left another key,    *)
(* whose later instant the worker now waits for.                           *)
C31_Witness ==
    /\ workerPc = "select" /\ ~permit
    /\ \E k \in Keys : stored[k].set /\ k \notin DOMAIN entries
                           /\ now = stored[k].at + TtlOf(stored[k])
    /\ \E j \in DOMAIN entries :
           /\ entries[j].expires_at = Some(workerWhen)
           /\ now < workerWhen

-----------------------------------------------------------------------------
(* C32.  Overwriting a key cancels its old expiration.  When the last SET  *)
(* of K carried no TTL, no element of the index refers to K, no sweep      *)
(* removes K, and a GET of K replies Bulk of that SET's value at any later *)
(* time; when it carried a TTL, the only index element for K is the one of *)
(* that SET, so K is not removed at an older instant.                      *)
C32_OverwriteCancelsTtl ==
    /\ [](\A k \in Keys :
             stored[k].set /\ stored[k].unit = "" =>
                 /\ IndexOf(expirations, k) = {}
                 /\ k \in DOMAIN entries /\ entries[k].data = stored[k].value)
    /\ [](\A k \in Keys :
             Unexpired(k) =>
                 /\ k \in DOMAIN entries
                 /\ IndexOf(expirations, k)
                        = {<<stored[k].at + TtlOf(stored[k]), entries[k].id>>})
    /\ [][\A k \in Keys :
             SweepStep /\ stored[k].set /\ (stored[k].unit = "" \/ Unexpired(k))
                 => k \in DOMAIN entries' /\ entries'[k] = entries[k]]_vars
    /\ [][\A c \in Conns :
             GetStep(c) /\ stored[cmd'[c].key].set /\ stored[cmd'[c].key].unit = ""
                 => out'[c] = Append(out[c], Bulk(stored[cmd'[c].key].value))]_vars

(* Key a was set with a TTL and then without; the old instant has passed,  *)
(* the worker has swept and waits with an empty index, and GET a was       *)
(* answered with the value.                                                *)
C32_Witness ==
    /\ next_id = 2 /\ ttlUsed /\ ~stored["b"].set
    /\ stored["a"].unit = "" /\ entries["a"].id = 1
    /\ now >= 1
    /\ workerPc = "notified" /\ ~permit
    /\ out[1] = <<Simple("OK"), Simple("OK"), Bulk("v1")>>

-----------------------------------------------------------------------------
(* The waits of the back off, in seconds.                                  *)
BackoffWaits == {1, 2, 4, 8, 16, 32, 64}

(* listener.accept() yields an error in this step.                         *)
AcceptErrorStep == listenerPc = "accept" /\ listenerPc' \in {"backoff", "failed"}

(* C33.  On consecutive accept errors the listener waits 1 second after    *)
(* the first failure and twice the previous wait after each further one;   *)
(* no wait exceeds 64 seconds; a successful accept at any attempt returns  *)
(* the socket at once (the handler is spawned and the next accept starts   *)
(* again at 1 second).                                                     *)
C33_BackoffDoubles ==
    /\ [](listenerPc = "backoff" => backoff \in BackoffWaits)
    /\ [][listenerPc = "acquire" /\ listenerPc' = "accept" => backoff' = 1]_vars
    /\ [][AcceptErrorStep => backoff' = backoff]_vars
    /\ [][listenerPc = "backoff" /\ listenerPc' # "backoff" =>
             listenerPc' = "accept" /\ backoff' = 2 * backoff]_vars
    /\ [](listenerPc = "accept" /\ (\E c \in Conns : c <= MaxAccepts /\ hstate[c] = "none")
             => ENABLED (\E c \in Conns : ListenerAccept(c)))
    /\ [][\A c \in Conns :
             hstate[c] = "none" /\ hstate'[c] # "none" =>
                 listenerPc = "accept" /\ listenerPc' = "acquire" /\ hstate'[c] = "normal"]_vars

(* The listener waits 64 seconds, after a connection was accepted at an    *)
(* earlier call of accept.                                                 *)
C33_Witness ==
    /\ listenerPc = "backoff" /\ backoff = 64
    /\ \E c \in Conns : hstate[c] # "none"

-----------------------------------------------------------------------------
(* The number of the try of listener.accept() within one call of accept:   *)
(* the back off has doubled once per failed try.                           *)
Tries == CHOOSE n \in 1 .. 10 : 2 ^ (n - 1) = backoff

(* C34.  When accepting fails on the 6th try, the one made after the       *)
(* 64-second wait, accept returns the error and the accept loop ends; with *)
(* fewer consecutive failures it keeps retrying.                           *)
C34_SixthFailureGivesUp ==
    [][AcceptErrorStep =>
          /\ Tries = 6 => listenerPc' = "failed"
          /\ Tries < 6 => listenerPc' = "backoff"
          /\ listenerPc' = "failed" => backoff = 2 * 64]_vars


-----------------------------------------------------------------------------
(* read_frame called until it returns no frame, on a buffer that holds the *)
(* whole stream: the frames returned and how the last call ended.          *)
RECURSIVE ReadAll(_)
ReadAll(buffer) ==
    LET more(r, rest) == [frames |-> <<r.frame>> \o rest.frames, result |-> rest.result]
        step(r) ==
            IF r.st # "ok" THEN [frames |-> <<>>, result |-> r.st]
            ELSE CHOOSE res \in {more(r, rest) :
                     rest \in {ReadAll(SubSeq(buffer, r.len + 1, Len(buffer)))}} : TRUE
    IN  CHOOSE res \in {step(r) : r \in {Connection_read_frame(buffer)}} : TRUE

IsPrefix(s, t) == Len(s) <= Len(t) /\ s = SubSeq(t, 1, Len(s))

(* C35: decoding does not depend on how the stream is split across reads:  *)
(* no byte is lost or reordered (what follows a returned frame stays in    *)
(* the buffer), the frames returned so far are the first frames that       *)
(* read_frame returns when the whole stream is buffered at once, the calls *)
(* end the same way with the same frames, and a buffer holding only the    *)
(* beginning of a frame is checked as incomplete, never as an error.       *)
C35_ChunkingIndependent ==
    wire.result # "idle" =>
        \E all \in {ReadAll(wire.whole)} :
            /\ wire.whole = SubSeq(wire.whole, 1, wire.consumed) \o wire.buffer \o wire.stream
            /\ IsPrefix(wire.frames, all.frames)
            /\ wire.result # "reading" =>
                   wire.frames = all.frames /\ wire.result = all.result
            /\ \A f \in StreamFrames :
                   \E enc \in {Connection_write_frame(f)} :
                       (Len(wire.buffer) < Len(enc) /\ IsPrefix(wire.buffer, enc))
                           => Frame_check(wire.buffer, 1).st = "incomplete"

(* A frame was returned from a read that also brought the beginning of    *)
(* the next frame (a bulk whose payload has not arrived), which waits in   *)
(* the buffer.                                                             *)
C35_Witness ==
    /\ wire.result = "reading"
    /\ wire.frames = <<GetFrame("a")>>
    /\ wire.buffer = <<"$", "2", "\r", "\n", "v">>
    /\ wire.stream # <<>>


-----------------------------------------------------------------------------
IsConfirmation(frame, kind, ch) ==
    frame.t = "array" /\ Len(frame.parts) = 3
        /\ frame.parts[1] = PBulk(kind) /\ frame.parts[2] = PBulk(ch)

IsMessageOn(frame, ch) == IsMessage(frame) /\ frame.parts[2] = PBulk(ch)

(* C36: among the frames written to a connection, a "message" frame for a  *)
(* channel that comes after the confirmation of an UNSUBSCRIBE for that    *)
(* channel has a confirmation of a SUBSCRIBE for it in between; and a      *)
(* handler that does not hold a receiver for a channel cannot take the     *)
(* message branch for it, whatever the channel still retains.              *)
C36_NoMessageAfterUnsubscribe ==
    \A c \in Conns, ch \in Channels :
        /\ \A i, j \in DOMAIN out[c] :
              (i < j /\ IsConfirmation(out[c][i], "unsubscribe", ch)
                     /\ IsMessageOn(out[c][j], ch))
                  => \E k \in (i + 1) .. (j - 1) : IsConfirmation(out[c][k], "subscribe", ch)
        /\ ch \notin DOMAIN subs[c] => ~ENABLED Subscribe_message(c, ch)

(* The subscriber left the channel while a message published for it was    *)
(* not yet delivered, and waits in its select! again.                      *)
C36_Witness ==
    /\ out[1] = <<SubscribeResponse("c1", 1), UnsubscribeResponse("c1", 0)>>
    /\ \E p \in DOMAIN published : published[p].channel = "c1" /\ 1 \in published[p].rx
    /\ hstate[1] = "subscribed" /\ pendingOp[1] = "none"


-----------------------------------------------------------------------------
(* C37: a connection that holds a receiver for a channel, has never left   *)
(* the channel and cannot have lagged (the channel never held more than    *)
(* BufferLen values) misses no message published for it: each one was      *)
(* written to it as a "message" frame or is still ahead of its receiver,   *)
(* whatever commands the connection sent meanwhile.                        *)
C37_NoMessageDiscarded ==
    \A c \in Conns, ch \in Channels :
        (/\ hstate[c] = "subscribed"
         /\ ch \in DOMAIN subs[c]
         /\ \A i \in DOMAIN out[c] : ~IsConfirmation(out[c][i], "unsubscribe", ch)
         /\ Len(pub_sub[ch].buf) <= BufferLen)
            => \A p \in DOMAIN published :
                   (published[p].channel = ch /\ c \in published[p].rx)
                       => \/ \E i \in DOMAIN delivered[c] :
                                /\ delivered[c][i].channel = ch
                                /\ delivered[c][i].pos = published[p].pos
                          \/ published[p].pos > subs[c][ch]


-----------------------------------------------------------------------------
(* C38: a GET of a key whose entry has reached its expiration instant      *)
(* (now >= expires_at) replies Null, whether or not the worker has removed *)
(* the entry yet.                                                          *)
C38_GetNeverReturnsExpired ==
    [][\A c \in Conns :
          GetStep(c) /\ Expired(cmd'[c].key) /\ ~poisoned
              => out'[c] = Append(out[c], Null)]_vars


-----------------------------------------------------------------------------
(* C39: once Shutdown::recv has completed in a handler, is_shutdown stays  *)
(* true, the handler has left its loop, and it reads no further frame and  *)
(* applies no further command: its frame count and its output stay as they *)
(* are, no step of it is possible in either mode, and the database gets a  *)
(* value, a channel or a receiver only in steps of handlers that have not  *)
(* observed the signal.                                                    *)
C39_NoCommandAfterShutdown ==
    /\ [](\A c \in Conns :
             hshutdown[c] =>
                 /\ ~Live(c)
                 /\ ~ENABLED (\E f \in ServerFrames : HandlerFrame(c, f))
                 /\ ~ENABLED (\E f \in ServerFrames : SubFrame(c, f))
                 /\ ~ENABLED SetFinish(c)
                 /\ ~ENABLED Subscribe_next(c)
                 /\ ~ENABLED Subscribe_insert(c))
    /\ [][\A c \in Conns :
             hshutdown[c] =>
                 /\ hshutdown'[c]
                 /\ nread'[c] = nread[c] /\ cmd'[c] = cmd[c] /\ out'[c] = out[c]
                 /\ subs'[c] = subs[c]]_vars
    /\ [][(\/ entries' # entries
            \/ DOMAIN pub_sub' # DOMAIN pub_sub
            \/ \E ch \in DOMAIN pub_sub :
                   \/ pub_sub'[ch].rx_cnt > pub_sub[ch].rx_cnt
                   \/ pub_sub'[ch].buf # pub_sub[ch].buf)
             => \E d \in Conns :
                    /\ ~hshutdown[d] /\ Live(d)
                    /\ nread'[d] # nread[d] \/ pendingOp[d] # "none"]_vars

(* A handler that had served a command has observed the signal while       *)
(* another handler still runs.                                             *)
C39_Witness ==
    \E c, d \in Conns :
        /\ hshutdown[c] /\ nread[c] > 0
        /\ ~hshutdown[d] /\ Live(d) /\ nread[d] > 0


-----------------------------------------------------------------------------
(* C40: while a handler holds a receiver for a channel (in its map, or     *)
(* just obtained from Db::subscribe), the channel's broadcaster is in      *)
(* pub_sub, counts at least that receiver, and retains no fewer values     *)
(* than the receiver has passed; no step removes the broadcaster of a      *)
(* channel that has a receiver, or takes values back from it.  So a        *)
(* receiver polled in subscribed mode never finds its channel closed.      *)
C40_ChannelOutlivesSubscription ==
    /\ [](\A c \in Conns, ch \in Channels :
             /\ ch \in DOMAIN subs[c] =>
                    /\ ch \in DOMAIN pub_sub
                    /\ pub_sub[ch].rx_cnt >= 1
                    /\ subs[c][ch] <= Len(pub_sub[ch].buf)
             /\ (rxHeld[c].some /\ rxHeld[c].ch = ch) =>
                    /\ ch \in DOMAIN pub_sub
                    /\ pub_sub[ch].rx_cnt >= 1)
    /\ [][\A ch \in Channels :
             Subscribed(ch) # {} =>
                 /\ ch \in DOMAIN pub_sub'
                 /\ IsPrefix(pub_sub[ch].buf, pub_sub'[ch].buf)]_vars

(* Two handlers had subscribed to the channel; one has returned and its    *)
(* receiver is dropped, the other has been delivered a value and still     *)
(* holds its receiver, the only one left.                                  *)
C40_Witness ==
    \E c, d \in Conns :
        /\ hstate[c] = "ok"
        /\ \E i \in DOMAIN out[c] : IsConfirmation(out[c][i], "subscribe", "c1")
        /\ "c1" \in DOMAIN subs[d]
        /\ pub_sub["c1"].rx_cnt = 1
        /\ delivered[d] # <<>>

====
